---- MODULE Spec2Model ----
(***************************************************************************)
(* A model of the numerical core of LibRecommender:                        *)
(*   - ALS.fit (libreco/algorithms/als.py): the confidence transform and   *)
(*     the alternating user / item passes              (specification      *)
(*     SpecFit);                                                           *)
(*   - one solver pass, _least_squares / _least_squares_cg, row by row,    *)
(*     in exact rational arithmetic                    (SpecPass);         *)
(*   - BPR.fit and BPR.predict (algorithms/BPR.py)     (SpecBPR);          *)
(*   - model construction, of ALS and of BPR, from the process-wide        *)
(*     random generator                                (SpecBuild);        *)
(*   - BPR.fit called again on a trained model         (SpecRefit);        *)
(*   - predict and recommend_user of the trained ALS, SVD and DeepFM       *)
(*     models (libreco/algorithms)                     (SpecServe).        *)
(* Python arrays are 0-based; they are held here as sequences and read     *)
(* with At(a, k) == a[k + 1].                                              *)
(***************************************************************************)
EXTENDS Integers, Sequences, FiniteSets

VARIABLES
    \* ---- ALS.fit ----
    task,            \* self.task: "rating" | "ranking"
    n_epochs,        \* self.n_epochs
    alpha,           \* self.alpha
    train_data,      \* the caller's train_data.sparse_interaction (a CSR matrix);
                     \* fit's local user_interaction is an alias of this object
    item_interaction,\* fit's local item_interaction = user_interaction.T.tocsr()
    use_cg,          \* fit's argument use_cg
    user_embed,      \* self.user_embed, as a stamp <<fit, epoch, complete>> of the
                     \* pass that wrote it last (<<0, 0, 1>>: as built)
    item_embed,      \* self.item_embed, likewise
    epoch,           \* fit's loop variable
    fit_pc,          \* "idle" | "user_pass" | "item_pass" | "returned" | "raised"
    fit_no,          \* number of fit calls made on this model
    call_data,       \* train_data.sparse_interaction.data when the current fit was called
    pass_log,        \* the trainer calls of the current fit, in order
    \* ---- one solver pass: _least_squares / _least_squares_cg ----
    X,               \* the matrix solved for (rows of numbers), written in place
    Y,               \* the fixed other matrix
    sparse_interaction, \* the CSR matrix argument: indptr, indices, data
    reg,             \* argument reg
    num,             \* argument num: the number of rows to solve
    mode,            \* argument mode
    algo,            \* "direct": _least_squares, "cg": _least_squares_cg
    cg_steps,        \* argument cg_steps of _least_squares_cg
    order,           \* the order in which the rows are fed to the solver
    m,               \* the row loop's index
    init_A,          \* the local init_A of the implicit branches (<<>>: not set)
    pass_pc,         \* "called" | "running" | "done" | "raised" | "value_error"
    X0,              \* X as it was when the pass was called
    cg_iters,        \* conjugate-gradient iterations run for each row solved so far
    \* ---- BPR ----
    lr,              \* self.lr
    bpr_reg,         \* self.reg
    bpr_n_epochs,    \* self.n_epochs
    iteration,       \* self.iteration
    batch_size,      \* self.batch_size
    n_factors,       \* self.n_factors
    seed,            \* self.seed
    dataset,         \* self.dataset (NoDataset: not set)
    pu,              \* self.pu (<<>>: not set)
    qi,              \* self.qi (<<>>: not set)
    rng,             \* the state of the process-wide generator np.random
    sampling_mode,   \* fit's argument sampling_mode
    verbose,         \* fit's argument verbose
    bpr_pc,          \* "idle" | "bootstrap" | "sgd" | "batch" | "returned" |
                     \* "value_error" | "sampling" (a negative draw that never ends)
    bpr_epoch,       \* the epoch loop's variable (sgd, batch)
    bpr_i,           \* the inner loop's count of steps done
    batch,           \* the triples the last training step consumed:
                     \* user, item_i, item_j, x_uij (NoBatch: none yet)
    n_updates,       \* training steps applied by the current fit
    pred_out,        \* the last result of predict (NoPrediction: none yet)
    \* ---- predict and recommend_user (ALS, SVD, DeepFM) ----
    model_kind,      \* the class of the model: "ALS" | "SVD" | "DeepFM"
    model_task,      \* self.task
    user_factors,    \* ALS.user_embed / SVD.pu
    item_factors,    \* ALS.item_embed / SVD.qi
    bu,              \* SVD.bu
    bi,              \* SVD.bi
    net_output,      \* DeepFM: what sess.run(self.output) gives for each user
    global_mean,     \* data_info.global_mean
    lower_bound,     \* self.lower_bound
    upper_bound,     \* self.upper_bound
    user_consumed,   \* self.user_consumed: for each user the items consumed
    call_out         \* the outcome of the last predict / recommend_user call

fitVars == <<task, n_epochs, alpha, train_data, item_interaction, use_cg,
             user_embed, item_embed, epoch, fit_pc, fit_no, call_data, pass_log>>

passVars == <<X, Y, sparse_interaction, reg, num, mode, algo, cg_steps, order, m,
              init_A, pass_pc, X0, cg_iters>>

bprVars == <<lr, bpr_reg, bpr_n_epochs, iteration, batch_size, n_factors, seed,
             dataset, pu, qi, rng, sampling_mode, verbose, bpr_pc, bpr_epoch, bpr_i,
             batch, n_updates, pred_out>>

srvVars == <<model_kind, model_task, user_factors, item_factors, bu, bi, net_output,
             global_mean, lower_bound, upper_bound, user_consumed, call_out>>

vars == <<fitVars, passVars, bprVars, srvVars>>

\* ------------------------------------------------------------------------
\* Bounds of the model.
MaxEpochs == 2
MaxFits == 2
MaxCgSteps == 2
MaxSteps == 3
MaxBprEpochs == 1

\* ------------------------------------------------------------------------
\* 0-based array access.
At(a, k) == a[k + 1]

\* ------------------------------------------------------------------------
\* Real arithmetic, exact: a number is <<numerator, denominator>> in lowest
\* terms with a positive denominator.  NonFinite stands for the inf and nan
\* of floating point (a division by zero and everything computed from it).

Abs(a) == IF a < 0 THEN -a ELSE a

RECURSIVE GCD(_, _)
GCD(a, b) == IF b = 0 THEN a ELSE GCD(b, a % b)

NonFinite == <<0, 0>>

IsFinite(a) == a[2] # 0

RNorm(n, d) ==
    IF d = 0 THEN NonFinite
    ELSE LET g == GCD(Abs(n), Abs(d))
             sgn == IF d < 0 THEN -1 ELSE 1
         IN  <<(sgn * n) \div g, (sgn * d) \div g>>

R(n) == <<n, 1>>
Zero == R(0)
One == R(1)

RNeg(a) == <<-a[1], a[2]>>

RAdd(a, b) ==
    IF ~IsFinite(a) \/ ~IsFinite(b) THEN NonFinite
    ELSE LET g == GCD(a[2], b[2])
         IN  RNorm(a[1] * (b[2] \div g) + b[1] * (a[2] \div g), (a[2] \div g) * b[2])

RSub(a, b) == RAdd(a, RNeg(b))

RMul(a, b) ==
    IF ~IsFinite(a) \/ ~IsFinite(b) THEN NonFinite
    ELSE LET g1 == GCD(Abs(a[1]), b[2])
             g2 == GCD(Abs(b[1]), a[2])
         IN  RNorm((a[1] \div g1) * (b[1] \div g2), (a[2] \div g2) * (b[2] \div g1))

RDiv(a, b) ==
    IF ~IsFinite(a) \/ ~IsFinite(b) \/ b[1] = 0 THEN NonFinite
    ELSE RMul(a, RNorm(b[2], b[1]))

\* a < b; FALSE when either is not finite, as a comparison with nan is.
RLt(a, b) == IsFinite(a) /\ IsFinite(b) /\ RSub(a, b)[1] < 0

\* a < 1e-10.  A denominator here is below 2^31 < 1e10, so the product is
\* taken in two halves of 1e5.
BelowTol(a) ==
    /\ IsFinite(a)
    /\ \/ a[1] <= 0
       \/ a[1] < 20000 /\ a[1] * 100000 <= (a[2] - 1) \div 100000

\* Vectors are sequences of numbers, matrices sequences of row vectors.
\* Eager(s) is s, computed once (a sequence written as a function is
\* otherwise recomputed at every use).
Eager(s) == s \o <<>>

VecAdd(u, v) == Eager([k \in 1..Len(u) |-> RAdd(u[k], v[k])])
VecSub(u, v) == Eager([k \in 1..Len(u) |-> RSub(u[k], v[k])])
VecScale(c, v) == Eager([k \in 1..Len(v) |-> RMul(c, v[k])])
ZeroVec(f) == Eager([k \in 1..f |-> Zero])

RECURSIVE RSum(_)
RSum(s) == IF s = <<>> THEN Zero ELSE RAdd(s[1], RSum(Tail(s)))

\* u @ v
Dot(u, v) == RSum(Eager([k \in 1..Len(u) |-> RMul(u[k], v[k])]))

\* A @ v
MatVec(A, v) == Eager([r \in 1..Len(A) |-> Dot(A[r], v)])

\* np.outer(u, v)
Outer(u, v) == Eager([r \in 1..Len(u) |-> VecScale(u[r], v)])

MatAdd(A, B) == Eager([r \in 1..Len(A) |-> VecAdd(A[r], B[r])])
MatScale(c, A) == Eager([r \in 1..Len(A) |-> VecScale(c, A[r])])
ZeroMat(f) == Eager([r \in 1..f |-> ZeroVec(f)])

\* np.eye(f)
Eye(f) == Eager([r \in 1..f |-> Eager([c \in 1..f |-> IF r = c THEN One ELSE Zero])])

\* rows.T @ rows, the sum of the outer products of the rows (f: their length).
RECURSIVE Gram(_, _)
Gram(rows, f) ==
    IF rows = <<>> THEN ZeroMat(f)
    ELSE MatAdd(Outer(rows[1], rows[1]), Gram(Tail(rows), f))

\* rows.T @ w, the sum of w[k] * rows[k].
RECURSIVE WeightedSum(_, _, _)
WeightedSum(rows, w, f) ==
    IF rows = <<>> THEN ZeroVec(f)
    ELSE VecAdd(VecScale(w[1], rows[1]), WeightedSum(Tail(rows), Tail(w), f))

DropAt(s, k) == Eager([j \in 1..(Len(s) - 1) |-> IF j < k THEN s[j] ELSE s[j + 1]])

\* The determinant, expanded along the first row.
RECURSIVE Det(_)
Det(A) ==
    IF Len(A) = 1 THEN A[1][1]
    ELSE LET minor(c) == Eager([r \in 1..(Len(A) - 1) |-> DropAt(A[r + 1], c)])
             term(c) == RMul(IF c % 2 = 1 THEN A[1][c] ELSE RNeg(A[1][c]),
                             Det(minor(c)))
         IN  RSum(Eager([c \in 1..Len(A) |-> term(c)]))

\* np.linalg.solve(A, b): the solution of A x = b, or LinAlgError for a
\* singular A (ok = FALSE).
LinalgSolve(A, b) ==
    LET d == Det(A)
        replaced(c) == Eager([r \in 1..Len(A) |->
                          Eager([j \in 1..Len(A) |-> IF j = c THEN b[r] ELSE A[r][j]])])
    IN  IF d = Zero
        THEN [ok |-> FALSE, x |-> b]
        ELSE [ok |-> TRUE,
              x |-> Eager([c \in 1..Len(A) |-> RDiv(Det(replaced(c)), d)])]

\* ------------------------------------------------------------------------
\* Sparse interaction matrices (scipy.sparse.csr_matrix): indptr, indices,
\* data, and the shape <<rows, columns>>.

\* The stored entries of row r of a dense matrix, in column order.
RECURSIVE RowEntries(_, _)
RowEntries(row, c) ==
    IF c > Len(row) THEN <<>>
    ELSE IF row[c] = 0 THEN RowEntries(row, c + 1)
    ELSE <<[col |-> c - 1, val |-> row[c]]>> \o RowEntries(row, c + 1)

RECURSIVE ConcatRows(_, _)
ConcatRows(dense, r) ==
    IF r > Len(dense) THEN <<>>
    ELSE RowEntries(dense[r], 1) \o ConcatRows(dense, r + 1)

RECURSIVE RowPtr(_, _)
RowPtr(dense, r) ==
    IF r = 0 THEN <<0>>
    ELSE LET before == RowPtr(dense, r - 1)
         IN  Append(before, before[r] + Len(RowEntries(dense[r], 1)))

\* csr_matrix(dense): zeros are absent, indices sorted within each row.
ToCSR(dense) ==
    LET entries == ConcatRows(dense, 1)
    IN  [indptr  |-> RowPtr(dense, Len(dense)),
         indices |-> [k \in 1..Len(entries) |-> entries[k].col],
         data    |-> [k \in 1..Len(entries) |-> entries[k].val],
         shape   |-> <<Len(dense), Len(dense[1])>>]

\* The positions (0-based) of the stored entries of a row.
RowSlice(M, row) == { k \in 0..(Len(M.data) - 1) :
                        At(M.indptr, row) <= k /\ k < At(M.indptr, row + 1) }

\* The row that holds stored position k.
RowOf(M, k) == CHOOSE row \in 0..(M.shape[1] - 1) : k \in RowSlice(M, row)

\* The value stored for (row, col); 0 when the entry is absent.
Entry(M, row, col) ==
    LET hits == { k \in RowSlice(M, row) : At(M.indices, k) = col }
    IN  IF hits = {} THEN 0 ELSE At(M.data, CHOOSE k \in hits : TRUE)

\* Stored positions of M in the order of the transposed CSR: by column, and
\* within a column by row.
RECURSIVE ColumnOrder(_, _, _)
ColumnOrder(M, c, k) ==
    IF c >= M.shape[2] THEN <<>>
    ELSE IF k >= Len(M.data) THEN ColumnOrder(M, c + 1, 0)
    ELSE IF At(M.indices, k) = c
         THEN <<k>> \o ColumnOrder(M, c, k + 1)
         ELSE ColumnOrder(M, c, k + 1)

RECURSIVE ColPtr(_, _)
ColPtr(M, c) ==
    IF c = 0 THEN <<0>>
    ELSE LET before == ColPtr(M, c - 1)
         IN  Append(before, before[c] +
                 Cardinality({ k \in 0..(Len(M.data) - 1) : At(M.indices, k) = c - 1 }))

\* M.T.tocsr(): a new matrix with arrays of its own.
TransposeCSR(M) ==
    LET ord == ColumnOrder(M, 0, 0)
    IN  [indptr  |-> ColPtr(M, M.shape[2]),
         indices |-> [k \in 1..Len(ord) |-> RowOf(M, ord[k])],
         data    |-> [k \in 1..Len(ord) |-> At(M.data, ord[k])],
         shape   |-> <<M.shape[2], M.shape[1]>>]

\* data * alpha + 1, elementwise, as a new array.
ConfidenceTransform(data, a) == [k \in 1..Len(data) |-> data[k] * a + 1]

\* ------------------------------------------------------------------------
\* ALS.fit

TaskVals == {"rating", "ranking"}
AlphaVals == {2, 10}

\* Interaction matrices the caller may hand to fit (users x items).
DenseInputs == { << <<5, 3, 0, 0>>, <<4, 0, 0, 1>>, <<0, 1, 5, 4>> >>,
                 << <<1, 0>>, <<2, 5>> >> }

EmptyCSR == [indptr |-> <<0>>, indices |-> <<>>, data |-> <<>>, shape |-> <<0, 0>>]

BuiltStamp == <<0, 0, 1>>

\* ALS._build_model: both embedding matrices are created once, in __init__.
BuildModel == [user_embed |-> BuiltStamp, item_embed |-> BuiltStamp]

\* FitViews with lines 81 and 84 exchanged: the transpose is taken from the
\* matrix whose data is already transformed.
FitViewsTransposeLate(interaction, t, a) ==
    IF t = "ranking"
    THEN LET user_interaction == [interaction EXCEPT
                    !.data = ConfidenceTransform(interaction.data, a)]
             item_view == TransposeCSR(user_interaction)
         IN  [user |-> user_interaction,
              item |-> [item_view EXCEPT
                            !.data = ConfidenceTransform(item_view.data, a)]]
    ELSE [user |-> interaction, item |-> TransposeCSR(interaction)]

\* Lines 80-85 of fit.  user_interaction is the caller's matrix object itself,
\* item_interaction a matrix of its own built from it; for "ranking" the data
\* attribute of each is then replaced by data * alpha + 1.  The result names
\* the caller's object after these lines (user) and fit's local (item).
FitViews(interaction, t, a) ==
    LET user_interaction == interaction
        item_view == TransposeCSR(user_interaction)
    IN  IF t = "ranking"
        THEN [user |-> [user_interaction EXCEPT
                            !.data = ConfidenceTransform(user_interaction.data, a)],
              item |-> [item_view EXCEPT
                            !.data = ConfidenceTransform(item_view.data, a)]]
        ELSE [user |-> user_interaction, item |-> item_view]

\* ALS._choose_algo: the trainer is als_update with task and use_cg bound.
ChooseAlgo(t, ucg) == [task |-> t, use_cg |-> ucg]

\* The epoch loop as range(1, self.n_epochs).
EpochInRangeShort(e, n) == 1 <= e /\ e < n

\* for epoch in range(1, self.n_epochs + 1)
EpochInRange(e, n) == 1 <= e /\ e <= n

\* The two trainer calls of one epoch, in the order fit makes them.
EpochCalls == << [X |-> "user_embed", Y |-> "item_embed", interaction |-> "user_interaction"],
                 [X |-> "item_embed", Y |-> "user_embed", interaction |-> "item_interaction"] >>

\* als_update solves by a direct linear solve (which fails on a singular
\* matrix) unless it runs conjugate gradient, which is implicit mode only.
TrainerMayRaise(trainer) == trainer.task = "rating" \/ ~trainer.use_cg

\* als_update: X is rewritten in place from Y; Y is only read.  complete = 0
\* marks a pass that a failing row solve cut short.
AlsUpdate(fit, e, complete) == <<fit, e, complete>>

NoDataset == [n_users |-> 0, n_items |-> 0,
              train_user_indices |-> <<>>, train_item_indices |-> <<>>]
NoBatch == [user |-> <<>>, item_i |-> <<>>, item_j |-> <<>>, x_uij |-> <<>>]
NoPrediction == [u |-> 0, i |-> 0, prob |-> Zero, pred |-> Zero, called |-> FALSE]

\* No BPR model exists.
BprIdle ==
    /\ lr = Zero /\ bpr_reg = Zero /\ bpr_n_epochs = 0 /\ iteration = 0
    /\ batch_size = 0 /\ n_factors = 0 /\ seed = 0 /\ dataset = NoDataset
    /\ pu = <<>> /\ qi = <<>> /\ rng = 0 /\ sampling_mode = "" /\ verbose = 0
    /\ bpr_pc = "idle" /\ bpr_epoch = 0 /\ bpr_i = 0 /\ batch = NoBatch
    /\ n_updates = 0 /\ pred_out = NoPrediction

NoCall == [op |-> "", users |-> <<>>, items |-> <<>>, n_rec |-> 0, kind |-> "", value |-> <<>>]

\* No model is serving predictions.
SrvIdle ==
    /\ model_kind = "" /\ model_task = "" /\ user_factors = <<>> /\ item_factors = <<>>
    /\ bu = <<>> /\ bi = <<>> /\ net_output = <<>> /\ global_mean = Zero
    /\ lower_bound = Zero /\ upper_bound = Zero /\ user_consumed = <<>>
    /\ call_out = NoCall

\* No solver pass is under way.
PassIdle ==
    /\ X = <<>> /\ Y = <<>> /\ sparse_interaction = EmptyCSR /\ reg = Zero
    /\ num = 0 /\ mode = "" /\ algo = "" /\ cg_steps = 0 /\ order = <<>>
    /\ m = 0 /\ init_A = <<>> /\ pass_pc = "idle" /\ X0 = <<>> /\ cg_iters = <<>>

FitInit ==
    /\ task \in TaskVals
    /\ n_epochs \in 0..MaxEpochs
    /\ alpha \in AlphaVals
    /\ train_data \in { ToCSR(d) : d \in DenseInputs }
    /\ item_interaction = EmptyCSR
    /\ use_cg = FALSE
    /\ user_embed = BuildModel.user_embed
    /\ item_embed = BuildModel.item_embed
    /\ epoch = 0
    /\ fit_pc = "idle"
    /\ fit_no = 0
    /\ call_data = <<>>
    /\ pass_log = <<>>
    /\ PassIdle
    /\ BprIdle
    /\ SrvIdle

\* fit is called: lines 79-88, up to the first test of the epoch loop.
FitCall(ucg) ==
    /\ fit_pc \in {"idle", "returned", "raised"}
    /\ fit_no < MaxFits
    /\ LET views == FitViews(train_data, task, alpha)
       IN  /\ train_data' = views.user
           /\ item_interaction' = views.item
    /\ call_data' = train_data.data
    /\ use_cg' = ucg
    /\ fit_no' = fit_no + 1
    /\ epoch' = 1
    /\ pass_log' = <<>>
    /\ fit_pc' = IF EpochInRange(1, n_epochs) THEN "user_pass" ELSE "returned"
    /\ UNCHANGED <<task, n_epochs, alpha, user_embed, item_embed>>
    /\ UNCHANGED <<passVars, bprVars, srvVars>>

LogEntry(call, ystamp, complete) ==
    [X |-> call.X, Y |-> call.Y, epoch |-> epoch,
     trainer |-> ChooseAlgo(task, use_cg),
     interaction |-> IF call.interaction = "user_interaction"
                     THEN train_data ELSE item_interaction,
     y_stamp |-> ystamp, complete |-> complete]

\* The first trainer call of an epoch (lines 90-94).
UserPass(complete) ==
    /\ fit_pc = "user_pass"
    /\ complete = 0 => TrainerMayRaise(ChooseAlgo(task, use_cg))
    /\ LET call == EpochCalls[1]
           ystamp == IF call.Y = "item_embed" THEN item_embed ELSE user_embed
           xnew == AlsUpdate(fit_no, epoch, complete)
       IN  /\ pass_log' = Append(pass_log, LogEntry(call, ystamp, complete))
           /\ user_embed' = IF call.X = "user_embed" THEN xnew ELSE user_embed
           /\ item_embed' = IF call.X = "item_embed" THEN xnew ELSE item_embed
    /\ fit_pc' = IF complete = 1 THEN "item_pass" ELSE "raised"
    /\ UNCHANGED <<task, n_epochs, alpha, train_data, item_interaction, use_cg,
                   epoch, fit_no, call_data>>
    /\ UNCHANGED <<passVars, bprVars, srvVars>>

\* The second trainer call of an epoch (lines 95-99), then the loop test.
ItemPass(complete) ==
    /\ fit_pc = "item_pass"
    /\ complete = 0 => TrainerMayRaise(ChooseAlgo(task, use_cg))
    /\ LET call == EpochCalls[2]
           ystamp == IF call.Y = "item_embed" THEN item_embed ELSE user_embed
           xnew == AlsUpdate(fit_no, epoch, complete)
       IN  /\ pass_log' = Append(pass_log, LogEntry(call, ystamp, complete))
           /\ user_embed' = IF call.X = "user_embed" THEN xnew ELSE user_embed
           /\ item_embed' = IF call.X = "item_embed" THEN xnew ELSE item_embed
    /\ epoch' = IF complete = 1 THEN epoch + 1 ELSE epoch
    /\ fit_pc' = IF complete = 0 THEN "raised"
                 ELSE IF EpochInRange(epoch + 1, n_epochs) THEN "user_pass"
                 ELSE "returned"
    /\ UNCHANGED <<task, n_epochs, alpha, train_data, item_interaction, use_cg,
                   fit_no, call_data>>
    /\ UNCHANGED <<passVars, bprVars, srvVars>>

FitNext ==
    \/ \E ucg \in BOOLEAN : FitCall(ucg)
    \/ \E complete \in {0, 1} : UserPass(complete)
    \/ \E complete \in {0, 1} : ItemPass(complete)

SpecFit == FitInit /\ [][FitNext]_vars

\* ------------------------------------------------------------------------
\* Claims about ALS.fit, checked under SpecFit.

\* The caller's matrix as it was when the current fit was called.
CallMatrix == [train_data EXCEPT !.data = call_data]

StoredPairs(M) == { <<r, c>> \in (0..(M.shape[1] - 1)) \X (0..(M.shape[2] - 1)) :
                      \E k \in RowSlice(M, r) : At(M.indices, k) = c }

\* C1: a fit makes its trainer calls in the order user pass, item pass, user
\* pass, ... with epochs 1, 1, 2, 2, ...; every item pass reads the user
\* embeddings that the user pass of the same epoch of the same fit wrote; a
\* fit that returns has made exactly 2 * n_epochs calls, and the only other
\* way a fit ends is a trainer call that raised, which is then its last call.
C1_EpochsAlternate ==
    /\ \A k \in 1..Len(pass_log) :
          LET e == pass_log[k]
          IN  /\ e.epoch = (k + 1) \div 2
              /\ e.epoch <= n_epochs
              /\ k % 2 = 1 => /\ e.X = "user_embed" /\ e.Y = "item_embed"
                              /\ e.interaction.shape = CallMatrix.shape
              /\ k % 2 = 0 => /\ e.X = "item_embed" /\ e.Y = "user_embed"
                              /\ e.interaction.shape = TransposeCSR(CallMatrix).shape
                              /\ e.y_stamp = <<fit_no, e.epoch, 1>>
              /\ k < Len(pass_log) => e.complete = 1
    /\ fit_pc = "returned" =>
          /\ Len(pass_log) = 2 * n_epochs
          /\ \A k \in 1..Len(pass_log) : pass_log[k].complete = 1
    /\ fit_pc = "raised" =>
          /\ pass_log # <<>>
          /\ pass_log[Len(pass_log)].complete = 0

C1_Witness ==
    /\ fit_pc = "returned"
    /\ n_epochs = 2
    /\ Len(pass_log) = 4
    /\ pass_log[4].y_stamp = <<fit_no, 2, 1>>

\* C3: for task "ranking" every stored value of the matrix a trainer call
\* consumes is alpha * c + 1, c being the value the caller's matrix held for
\* that (user, item) pair when fit was called, in the by-user view and in the
\* by-item view alike; for task "rating" it is c itself.
C3_ConfidenceConsumed ==
    \A k \in 1..Len(pass_log) :
        LET e == pass_log[k]
            expected(c) == IF task = "ranking" THEN alpha * c + 1 ELSE c
        IN  /\ Len(e.interaction.data) = Len(call_data)
            /\ \A p \in StoredPairs(CallMatrix) :
                  IF e.X = "user_embed"
                  THEN Entry(e.interaction, p[1], p[2])
                          = expected(Entry(CallMatrix, p[1], p[2]))
                  ELSE Entry(e.interaction, p[2], p[1])
                          = expected(Entry(CallMatrix, p[1], p[2]))
            /\ \A p \in StoredPairs(CallMatrix) :
                  Entry(train_data, p[1], p[2]) = Entry(item_interaction, p[2], p[1])

C3_Witness ==
    /\ task = "ranking"
    /\ fit_no = 2
    /\ Len(pass_log) >= 2
    /\ pass_log[2].X = "item_embed"
    /\ pass_log[2].interaction.data # <<>>

\* C4 (as claimed): the values of the caller's train_data.sparse_interaction
\* after fit returns are those it held when fit was called.
C4_CallerMatrixUnchanged ==
    fit_pc = "returned" => train_data.data = call_data

\* ------------------------------------------------------------------------
\* One solver pass: _least_squares and _least_squares_cg.
\*
\* The arrays a pass can reach are held together as a heap h: X, Y, the
\* three arrays of the sparse matrix, and the local init_A.  Each row
\* operator returns the heap as the code's statements leave it.

Heap == [X |-> X, Y |-> Y, indices |-> sparse_interaction.indices,
         indptr |-> sparse_interaction.indptr, data |-> sparse_interaction.data,
         init_A |-> init_A]

\* range(indptr[row], indptr[row + 1])
Positions(h, row) ==
    Eager([k \in 1..(At(h.indptr, row + 1) - At(h.indptr, row)) |-> At(h.indptr, row) + k - 1])

\* Y[indices[m_slice]] and data[m_slice]
Interacted(h, row) ==
    LET pos == Positions(h, row)
    IN  Eager([k \in 1..Len(pos) |-> At(h.Y, At(h.indices, pos[k]))])

Labels(h, row) ==
    LET pos == Positions(h, row)
    IN  Eager([k \in 1..Len(pos) |-> R(At(h.data, pos[k]))])

\* Y.T @ Y + reg * np.eye(embed_size)
InitA(Ymat, rg, f) == MatAdd(Gram(Ymat, f), MatScale(rg, Eye(f)))

\* The explicit row with the failure of the solve caught: the row is left as
\* it was and the loop goes on.
ExplicitRowCatches(h, row, rg, f) ==
    LET interacted == Interacted(h, row)
        labels == Labels(h, row)
        A == MatAdd(Gram(interacted, f), MatScale(rg, Eye(f)))
        b == WeightedSum(interacted, labels, f)
        sol == LinalgSolve(A, b)
    IN  [heap |-> IF sol.ok THEN [h EXCEPT !.X[row + 1] = sol.x] ELSE h,
         ok |-> TRUE, iters |-> 0]

\* _least_squares, mode "explicit", the body of the row loop (lines 172-177).
ExplicitRow(h, row, rg, f) ==
    LET interacted == Interacted(h, row)
        labels == Labels(h, row)
        A == MatAdd(Gram(interacted, f), MatScale(rg, Eye(f)))
        b == WeightedSum(interacted, labels, f)
        sol == LinalgSolve(A, b)
    IN  [heap |-> IF sol.ok THEN [h EXCEPT !.X[row + 1] = sol.x] ELSE h,
         ok |-> sol.ok, iters |-> 0]

\* The loop over the neighbours of a row in _least_squares, mode "implicit"
\* (lines 183-188), from the A and b it is entered with.
RECURSIVE ImplicitAccumulate(_, _, _, _)
ImplicitAccumulate(h, pos, A, b) ==
    IF pos = <<>> THEN [A |-> A, b |-> b]
    ELSE LET factor == At(h.Y, At(h.indices, pos[1]))
             confidence == R(At(h.data, pos[1]))
         IN  ImplicitAccumulate(h, Tail(pos),
                 MatAdd(A, MatScale(RSub(confidence, One), Outer(factor, factor))),
                 VecAdd(b, VecScale(confidence, factor)))

\* The implicit row with A = init_A in place of A = init_A.copy(): the
\* in-place A += ... then lands in init_A itself.
ImplicitRowNoCopy(h, row, f) ==
    LET acc == ImplicitAccumulate(h, Positions(h, row), h.init_A, ZeroVec(f))
        sol == LinalgSolve(acc.A, acc.b)
    IN  [heap |-> IF sol.ok THEN [h EXCEPT !.X[row + 1] = sol.x, !.init_A = acc.A]
                  ELSE [h EXCEPT !.init_A = acc.A],
         ok |-> sol.ok, iters |-> 0]

\* _least_squares, mode "implicit", the body of the row loop (lines 181-189).
ImplicitRow(h, row, f) ==
    LET A0 == h.init_A   \* init_A.copy(): the += below do not reach init_A
        acc == ImplicitAccumulate(h, Positions(h, row), A0, ZeroVec(f))
        sol == LinalgSolve(acc.A, acc.b)
    IN  [heap |-> IF sol.ok THEN [h EXCEPT !.X[row + 1] = sol.x] ELSE h,
         ok |-> sol.ok, iters |-> 0]

\* Conjugate gradient on a dense system A x = b from x, as the implicit
\* branch of _least_squares_cg runs it.
RECURSIVE CgDense(_, _, _, _)
CgDense(A, st, left, dummy) ==
    IF left = 0 THEN st
    ELSE LET Ap == MatVec(A, st.p)
             ak == RDiv(st.rs_old, Dot(st.p, Ap))
             x2 == VecAdd(st.x, VecScale(ak, st.p))
             r2 == VecSub(st.r, VecScale(ak, Ap))
             rs_new == Dot(r2, r2)
         IN  IF BelowTol(rs_new) THEN [st EXCEPT !.x = x2, !.r = r2]
             ELSE CgDense(A, [x |-> x2, r |-> r2,
                              p |-> VecAdd(r2, VecScale(RDiv(rs_new, st.rs_old), st.p)),
                              rs_old |-> rs_new], left - 1, dummy)

\* The explicit row of _least_squares_cg solved by one conjugate-gradient
\* step from the current X[row] instead of by the direct solve.
CgExplicitRowByCg(h, row, rg, f) ==
    LET interacted == Interacted(h, row)
        A == MatAdd(Gram(interacted, f), MatScale(rg, Eye(f)))
        b == WeightedSum(interacted, Labels(h, row), f)
        x == At(h.X, row)
        r == VecSub(b, MatVec(A, x))
        st == CgDense(A, [x |-> x, r |-> r, p |-> r, rs_old |-> Dot(r, r)], 1, 0)
    IN  [heap |-> IF BelowTol(Dot(r, r)) THEN h ELSE [h EXCEPT !.X[row + 1] = st.x],
         ok |-> TRUE, iters |-> 0]

\* _least_squares_cg, mode "explicit", the body of the row loop (lines 202-207).
CgExplicitRow(h, row, rg, f) ==
    LET interacted == Interacted(h, row)
        labels == Labels(h, row)
        A == MatAdd(Gram(interacted, f), MatScale(rg, Eye(f)))
        b == WeightedSum(interacted, labels, f)
        sol == LinalgSolve(A, b)
    IN  [heap |-> IF sol.ok THEN [h EXCEPT !.X[row + 1] = sol.x] ELSE h,
         ok |-> sol.ok, iters |-> 0]

\* r = -init_A @ x, then r += (confidence - (confidence - 1) * (y @ x)) * y
\* for every neighbour (lines 212-217).
RECURSIVE CgResidual(_, _, _, _)
CgResidual(h, pos, x, r) ==
    IF pos = <<>> THEN r
    ELSE LET y == At(h.Y, At(h.indices, pos[1]))
             confidence == R(At(h.data, pos[1]))
             w == RSub(confidence, RMul(RSub(confidence, One), Dot(y, x)))
         IN  CgResidual(h, Tail(pos), x, VecAdd(r, VecScale(w, y)))

\* Ap = init_A @ p, then Ap += (confidence - 1) * (y @ p) * y (lines 225-229).
RECURSIVE CgAp(_, _, _, _)
CgAp(h, pos, p, Ap) ==
    IF pos = <<>> THEN Ap
    ELSE LET y == At(h.Y, At(h.indices, pos[1]))
             confidence == R(At(h.data, pos[1]))
             w == RMul(RSub(confidence, One), Dot(y, p))
         IN  CgAp(h, Tail(pos), p, VecAdd(Ap, VecScale(w, y)))

\* The loop with the residual as the next direction (p = r) in place of the
\* conjugate direction.
RECURSIVE CgLoopSteepest(_, _, _, _)
CgLoopSteepest(h, pos, st, left) ==
    IF left = 0 THEN st
    ELSE LET Ap == CgAp(h, pos, st.p, MatVec(h.init_A, st.p))
             ak == RDiv(st.rs_old, Dot(st.p, Ap))
             x2 == VecAdd(st.x, VecScale(ak, st.p))
             r2 == VecSub(st.r, VecScale(ak, Ap))
             rs_new == Dot(r2, r2)
         IN  IF BelowTol(rs_new)
             THEN [st EXCEPT !.x = x2, !.r = r2, !.iters = st.iters + 1]
             ELSE CgLoopSteepest(h, pos,
                         [x |-> x2, r |-> r2, p |-> r2,
                          rs_old |-> rs_new, iters |-> st.iters + 1],
                         left - 1)

\* for _ in range(cg_steps) (lines 224-239), with `left` iterations to go.
RECURSIVE CgLoop(_, _, _, _)
CgLoop(h, pos, st, left) ==
    IF left = 0 THEN st
    ELSE LET Ap == CgAp(h, pos, st.p, MatVec(h.init_A, st.p))
             ak == RDiv(st.rs_old, Dot(st.p, Ap))
             x2 == VecAdd(st.x, VecScale(ak, st.p))
             r2 == VecSub(st.r, VecScale(ak, Ap))
             rs_new == Dot(r2, r2)
         IN  IF BelowTol(rs_new)
             THEN [st EXCEPT !.x = x2, !.r = r2, !.iters = st.iters + 1]
             ELSE CgLoop(h, pos,
                         [x |-> x2, r |-> r2,
                          p |-> VecAdd(r2, VecScale(RDiv(rs_new, st.rs_old), st.p)),
                          rs_old |-> rs_new, iters |-> st.iters + 1],
                         left - 1)

\* The implicit conjugate-gradient row with the neighbour factors scaled in
\* place (y *= confidence on the view y of Y) before they are used.
CgImplicitRowScalesY(h, row, steps) ==
    LET pos == Positions(h, row)
        scaled == [k \in 1..Len(h.Y) |->
                     IF \E j \in 1..Len(pos) : At(h.indices, pos[j]) = k - 1
                     THEN VecScale(R(At(h.data, CHOOSE q \in 0..(Len(h.data) - 1) :
                                          /\ \E j \in 1..Len(pos) : pos[j] = q
                                          /\ At(h.indices, q) = k - 1)), h.Y[k])
                     ELSE h.Y[k]]
    IN  [heap |-> [h EXCEPT !.Y = scaled], ok |-> TRUE, iters |-> 0]

\* The implicit conjugate-gradient row without the test of the initial
\* residual (lines 221-222): the loop is entered whatever r @ r is.
CgImplicitRowNoInitialTest(h, row, steps) ==
    LET pos == Positions(h, row)
        x == At(h.X, row)
        r == CgResidual(h, pos, x, VecScale(R(-1), MatVec(h.init_A, x)))
        rs_old == Dot(r, r)
        st == CgLoop(h, pos, [x |-> x, r |-> r, p |-> r, rs_old |-> rs_old, iters |-> 0],
                     steps)
    IN  [heap |-> [h EXCEPT !.X[row + 1] = st.x], ok |-> TRUE, iters |-> st.iters]

\* _least_squares_cg, mode "implicit", the body of the row loop (lines 211-241).
\* x is a view of X[row]: x += ... writes the row itself.
CgImplicitRow(h, row, steps) ==
    LET pos == Positions(h, row)
        x == At(h.X, row)
        r == CgResidual(h, pos, x, VecScale(R(-1), MatVec(h.init_A, x)))
        rs_old == Dot(r, r)
        st == CgLoop(h, pos, [x |-> x, r |-> r, p |-> r, rs_old |-> rs_old, iters |-> 0],
                     steps)
    IN  IF BelowTol(rs_old)
        THEN [heap |-> h, ok |-> TRUE, iters |-> 0]
        ELSE [heap |-> [h EXCEPT !.X[row + 1] = st.x], ok |-> TRUE, iters |-> st.iters]

\* What one turn of the row loop does, by function and mode.
SolveRow(h, row) ==
    LET f == Len(h.Y[1])
    IN  IF algo = "direct"
        THEN IF mode = "explicit" THEN ExplicitRow(h, row, reg, f)
             ELSE ImplicitRow(h, row, f)
        ELSE IF mode = "explicit" THEN CgExplicitRow(h, row, reg, f)
             ELSE CgImplicitRow(h, row, cg_steps)

\* ---- the inputs of a pass ----
ModeVals == {"explicit", "implicit", "linear"}
AlgoVals == {"direct", "cg"}
RegVals == {Zero, One}

PassDense == { << <<1, 2, 0>>, <<0, 0, 0>>, <<0, 3, 1>> >>,
               << <<2, 0, 1>>, <<1, 1, 1>>, <<0, 5, 0>> >> }

PassYs == { << <<R(1), R(0)>>, <<R(0), R(1)>>, <<R(1), R(-1)>> >>,
            << <<R(1), R(0)>>, <<R(0), R(1)>>, <<R(1), R(1)>> >> }

PassXs == { << <<R(0), R(0)>>, <<R(0), R(0)>>, <<R(0), R(0)>> >>,
            << <<R(1), R(1)>>, <<R(0), R(1)>>, <<R(1), R(0)>> >> }

\* The orders in which n rows can be fed: the sequences that hold each of
\* 0..n-1 once.  range(num) is the one in increasing order.
RowOrders(n) == { s \in [1..n -> 0..(n - 1)] : \A a, b \in 1..n : a # b => s[a] # s[b] }

FitIdle ==
    /\ task = "" /\ n_epochs = 0 /\ alpha = 0 /\ train_data = EmptyCSR
    /\ item_interaction = EmptyCSR /\ use_cg = FALSE
    /\ user_embed = BuiltStamp /\ item_embed = BuiltStamp
    /\ epoch = 0 /\ fit_pc = "idle" /\ fit_no = 0 /\ call_data = <<>> /\ pass_log = <<>>

PassInit ==
    /\ Y \in PassYs
    /\ X \in PassXs
    /\ X0 = X
    /\ sparse_interaction \in { ToCSR(d) : d \in PassDense }
    /\ reg \in RegVals
    /\ num = Len(X)
    /\ mode \in ModeVals
    /\ algo \in AlgoVals
    /\ cg_steps \in 1..MaxCgSteps
    /\ order \in RowOrders(num)
    /\ m = 0
    /\ init_A = <<>>
    /\ pass_pc = "called"
    /\ cg_iters = <<>>
    /\ FitIdle
    /\ BprIdle
    /\ SrvIdle

\* The function is entered: the mode is tested and, for "implicit", init_A
\* is computed from the whole of Y (lines 170/178-179, 200/208-209, 190-191).
PassEnter ==
    /\ pass_pc = "called"
    /\ \/ /\ mode = "explicit"
          /\ pass_pc' = IF num = 0 THEN "done" ELSE "running"
          /\ UNCHANGED init_A
       \/ /\ mode = "implicit"
          /\ init_A' = InitA(Y, reg, Len(Y[1]))
          /\ pass_pc' = IF num = 0 THEN "done" ELSE "running"
       \/ /\ mode \notin {"explicit", "implicit"}
          /\ pass_pc' = "value_error"
          /\ UNCHANGED init_A
    /\ UNCHANGED <<X, Y, sparse_interaction, reg, num, mode, algo, cg_steps, order, m,
                   X0, cg_iters>>
    /\ UNCHANGED <<fitVars, bprVars, srvVars>>

\* One turn of the row loop: the row fed at position m is solved and written
\* to X, or the solve raises and the pass ends there.
RowStep ==
    /\ pass_pc = "running"
    /\ LET res == SolveRow(Heap, At(order, m))
       IN  /\ X' = res.heap.X
           /\ Y' = res.heap.Y
           /\ sparse_interaction' = [sparse_interaction EXCEPT
                                        !.indices = res.heap.indices,
                                        !.indptr = res.heap.indptr,
                                        !.data = res.heap.data]
           /\ init_A' = res.heap.init_A
           /\ IF res.ok
              THEN /\ m' = m + 1
                   /\ cg_iters' = Append(cg_iters, res.iters)
                   /\ pass_pc' = IF m + 1 = num THEN "done" ELSE "running"
              ELSE /\ pass_pc' = "raised"
                   /\ UNCHANGED <<m, cg_iters>>
    /\ UNCHANGED <<reg, num, mode, algo, cg_steps, order, X0>>
    /\ UNCHANGED <<fitVars, bprVars, srvVars>>

PassNext == PassEnter \/ RowStep

SpecPass == PassInit /\ [][PassNext]_vars

\* ------------------------------------------------------------------------
\* Claims about one solver pass, checked under SpecPass.

\* The heap as the row loop is entered: X as passed, init_A as computed.
StartHeap ==
    [X |-> X0, Y |-> Y, indices |-> sparse_interaction.indices,
     indptr |-> sparse_interaction.indptr, data |-> sparse_interaction.data,
     init_A |-> IF mode = "implicit" THEN InitA(Y, reg, Len(Y[1])) ELSE <<>>]

\* The pass run over rows k, k+1, ..., num-1 in increasing order from heap h,
\* stopping at the first row whose solve fails.
RECURSIVE InOrderPass(_, _)
InOrderPass(h, k) ==
    IF k >= num THEN [heap |-> h, ok |-> TRUE]
    ELSE LET res == SolveRow(h, k)
         IN  IF res.ok THEN InOrderPass(res.heap, k + 1)
             ELSE [heap |-> res.heap, ok |-> FALSE]

\* _least_squares with mode "explicit" over rows k..num-1, from heap h.
RECURSIVE DirectExplicitPass(_, _)
DirectExplicitPass(h, k) ==
    IF k >= num THEN [heap |-> h, ok |-> TRUE]
    ELSE LET res == ExplicitRow(h, k, reg, Len(h.Y[1]))
         IN  IF res.ok THEN DirectExplicitPass(res.heap, k + 1)
             ELSE [heap |-> res.heap, ok |-> FALSE]

\* C5: no step of a pass writes Y or the indices, indptr or data of the
\* sparse matrix; X keeps its shape, and the only row of X a step changes is
\* the row being solved, one of rows 0..num-1.
C5_PassWritesOnlyX ==
    [][ /\ Y' = Y
        /\ sparse_interaction' = sparse_interaction
        /\ Len(X') = Len(X)
        /\ \A k \in 1..Len(X) :
              /\ Len(X'[k]) = Len(X[k])
              /\ X'[k] # X[k] => /\ pass_pc = "running"
                                 /\ k - 1 = At(order, m)
                                 /\ k - 1 \in 0..(num - 1) ]_vars

C5_Witness ==
    /\ pass_pc = "done"
    /\ algo = "cg" /\ mode = "implicit"
    /\ \A k \in 1..Len(X) : X[k] # X0[k]

\* C6: whatever the order in which the rows are fed, every row solved so far
\* holds the value computed for it from the state the pass started in (Y,
\* reg, the row's neighbours and weights, and its own previous value), every
\* other row its previous value; a pass that completes leaves X as the pass
\* in increasing row order does; and in implicit mode init_A stays
\* Y.T @ Y + reg * I after every row.
C6_RowsIndependent ==
    /\ pass_pc \in {"running", "done", "raised"} =>
          /\ \A k \in 1..num :
                X[At(order, k - 1) + 1] =
                    IF k <= m
                    THEN SolveRow(StartHeap, At(order, k - 1)).heap.X[At(order, k - 1) + 1]
                    ELSE X0[At(order, k - 1) + 1]
          /\ init_A = StartHeap.init_A
    /\ pass_pc = "done" =>
          LET ref == InOrderPass(StartHeap, 0)
          IN  ref.ok /\ X = ref.heap.X

C6_Witness ==
    /\ pass_pc = "done"
    /\ mode = "implicit"
    /\ order = <<2, 0, 1>>
    /\ \A k \in 1..Len(X) : X[k] # X0[k]

\* C7: a completed pass of _least_squares_cg with mode "explicit" leaves X as
\* _least_squares with mode "explicit" does on the same sparse matrix, Y and
\* reg, started from an all-zero X: the result depends neither on cg_steps
\* nor on what X held before.
C7_ExplicitCgIsDirect ==
    (algo = "cg" /\ mode = "explicit" /\ pass_pc = "done") =>
        LET zeros == Eager([k \in 1..Len(X0) |-> ZeroVec(Len(Y[1]))])
            ref == DirectExplicitPass([StartHeap EXCEPT !.X = zeros], 0)
        IN  ref.ok /\ X = ref.heap.X

C7_Witness ==
    /\ algo = "cg" /\ mode = "explicit" /\ pass_pc = "done"
    /\ cg_steps = 2
    /\ \A k \in 1..Len(X0) : X0[k] # ZeroVec(Len(Y[1])) /\ X[k] # X0[k]

\* The matrix of the normal equations of a row, from the state the pass
\* started in.
NormalMatrix(row) ==
    IF mode = "explicit"
    THEN MatAdd(Gram(Interacted(StartHeap, row), Len(Y[1])), MatScale(reg, Eye(Len(Y[1]))))
    ELSE ImplicitAccumulate(StartHeap, Positions(StartHeap, row), StartHeap.init_A,
                            ZeroVec(Len(Y[1]))).A

\* C18: a pass that solves directly never gets past a row whose normal
\* equations are singular: the solve of that row raises, the pass ends there
\* and takes no further step; the rows fed before it hold their newly solved
\* values, that row and the rows after it the values they had before the
\* pass, and the step that raises writes neither X nor Y.
C18_SingularRowAbortsPass ==
    /\ []((pass_pc \in {"running", "done", "raised"}
             /\ (mode = "explicit" \/ (mode = "implicit" /\ algo = "direct"))) =>
            /\ \A k \in 1..m :
                  LET row == At(order, k - 1)
                  IN  /\ Det(NormalMatrix(row)) # Zero
                      /\ X[row + 1] = LinalgSolve(NormalMatrix(row),
                                           IF mode = "explicit"
                                           THEN WeightedSum(Interacted(StartHeap, row),
                                                            Labels(StartHeap, row), Len(Y[1]))
                                           ELSE ImplicitAccumulate(StartHeap,
                                                    Positions(StartHeap, row), StartHeap.init_A,
                                                    ZeroVec(Len(Y[1]))).b).x
            /\ \A k \in (m + 1)..num : X[At(order, k - 1) + 1] = X0[At(order, k - 1) + 1]
            /\ (pass_pc = "raised") => (m < num /\ Det(NormalMatrix(At(order, m))) = Zero)
            /\ (pass_pc = "running") => (m < num))
    /\ [][/\ pass_pc # "raised"
          /\ (pass_pc' = "raised") => (X' = X /\ Y' = Y /\ m' = m)
          /\ (pass_pc = "running" /\ Det(NormalMatrix(At(order, m))) = Zero
                 /\ (mode = "explicit" \/ algo = "direct")) => (pass_pc' = "raised")]_vars

\* A pass over the rows in increasing order has raised at a row that is
\* neither the first nor the last, after writing the rows before it.
C18_Witness ==
    /\ pass_pc = "raised" /\ 0 < m /\ m + 1 < num
    /\ \A k \in 1..num : At(order, k - 1) = k - 1
    /\ \A k \in 1..m : X[At(order, k - 1) + 1] # X0[At(order, k - 1) + 1]

\* r.r for r = b - A x of a row at the value x, computed from the state the
\* pass started in.
ResidualSquared(row, x) ==
    LET r == CgResidual(StartHeap, Positions(StartHeap, row), x,
                        VecScale(R(-1), MatVec(StartHeap.init_A, x)))
    IN  Dot(r, r)

\* The value of a row after j iterations from its value at the start.
RowAfter(row, j) ==
    LET x == At(X0, row)
        r == CgResidual(StartHeap, Positions(StartHeap, row), x,
                        VecScale(R(-1), MatVec(StartHeap.init_A, x)))
    IN  CgLoop(StartHeap, Positions(StartHeap, row),
               [x |-> x, r |-> r, p |-> r, rs_old |-> Dot(r, r), iters |-> 0], j).x

\* C19: in an implicit conjugate-gradient pass every row takes at most
\* cg_steps iterations; none, leaving the row as it was, when r.r is below
\* 1e-10 at the start, and at least one otherwise; no iteration but the last
\* one of a row ends with r.r below 1e-10, and a row that took fewer than
\* cg_steps iterations ended below it; the pass never raises, every step
\* moves on to the next row, and the pass is done exactly when row num-1 has
\* been solved.
C19_CgIterationControl ==
    /\ []((mode = "implicit" /\ algo = "cg" /\ pass_pc # "called") =>
            /\ pass_pc \in {"running", "done"}
            /\ Len(cg_iters) = m /\ m <= num
            /\ (pass_pc = "done") <=> (m = num)
            /\ \A k \in 1..m :
                  LET row == At(order, k - 1)
                      rs0 == ResidualSquared(row, At(X0, row))
                  IN  /\ cg_iters[k] \in 0..cg_steps
                      /\ BelowTol(rs0) => (cg_iters[k] = 0 /\ X[row + 1] = X0[row + 1])
                      /\ ~BelowTol(rs0) => cg_iters[k] >= 1
                      /\ \A j \in 1..(cg_iters[k] - 1) :
                            ~BelowTol(ResidualSquared(row, RowAfter(row, j)))
                      /\ (1 <= cg_iters[k] /\ cg_iters[k] < cg_steps) =>
                            BelowTol(ResidualSquared(row, X[row + 1])))
    /\ [][(mode = "implicit" /\ algo = "cg" /\ pass_pc = "running") => (m' = m + 1)]_vars

\* A completed pass in which one row took no iteration and one row took all
\* cg_steps of them.
C19_Witness ==
    /\ mode = "implicit" /\ algo = "cg" /\ pass_pc = "done"
    /\ \E k \in 1..Len(cg_iters) : cg_iters[k] = 0
    /\ \E k \in 1..Len(cg_iters) : cg_iters[k] = cg_steps

\* |a - b| <= 1e-3 in every component.
WithinTolerance(a, b) ==
    \A c \in 1..Len(a) :
        /\ ~RLt(RNorm(1, 1000), RSub(a[c], b[c]))
        /\ ~RLt(RNorm(1, 1000), RSub(b[c], a[c]))
        /\ IsFinite(a[c]) /\ IsFinite(b[c])

\* C17: in implicit mode, once cg_steps is at least the factor dimension,
\* every row _least_squares_cg has solved is within 1e-3, component by
\* component, of the row _least_squares computes from the same Y, reg and
\* confidences, whatever X held at the start.
C17_CgReachesDirect ==
    (mode = "implicit" /\ algo = "cg" /\ cg_steps >= Len(Y[1])
        /\ pass_pc \in {"running", "done"}) =>
        \A k \in 1..m :
            LET row == At(order, k - 1)
                direct == ImplicitRow(StartHeap, row, Len(Y[1]))
            IN  direct.ok /\ WithinTolerance(X[row + 1], direct.heap.X[row + 1])

\* A completed conjugate-gradient pass with cg_steps equal to the factor
\* dimension in which a row took both iterations and every row moved.
C17_Witness ==
    /\ mode = "implicit" /\ algo = "cg" /\ cg_steps = Len(Y[1]) /\ pass_pc = "done"
    /\ \E k \in 1..Len(cg_iters) : cg_iters[k] = 2
    /\ \A k \in 1..Len(X) : X[k] # X0[k]

\* ---------------------------------------------------------------------------
\* BPR (src/algorithms/BPR.py)
\* ---------------------------------------------------------------------------

\* The process-wide generator np.random as a small congruential generator:
\* a state, a seeding, a step per draw, and the integer a draw yields.
RngMod == 16
\* A seeding that mixes the seed into the state the generator is in.
RngSeedKeepsState(g, sd) == (g + sd) % RngMod

RngSeed(g, sd) == sd % RngMod
RngNext(g) == (5 * g + 3) % RngMod
RngInt(g, n) == (g \div 2) % n

RECURSIVE RngAt(_, _)
RngAt(g, k) == IF k = 0 THEN g ELSE RngAt(RngNext(g), k - 1)

\* truncated_normal(shape, mean=0.0, scale=0.05): one draw per cell, in row
\* order; a cell is one of -0.1, 0, 0.1, the range two deviations leave.
TruncatedNormalCell(g) == RNorm((g % 3) - 1, 10)
TruncatedNormal(g, rows, cols) ==
    Eager([r \in 1..rows |->
        Eager([c \in 1..cols |-> TruncatedNormalCell(RngAt(g, (r - 1) * cols + (c - 1)))])])

\* build_model: seeds the generator, then draws pu and then qi from it.
BprBuildModel(ds, g, sd, f) ==
    LET g0 == RngSeed(g, sd)
        g1 == RngAt(g0, ds.n_users * f)
    IN  [pu |-> TruncatedNormal(g0, ds.n_users, f),
         qi |-> TruncatedNormal(g1, ds.n_items, f),
         rng |-> RngAt(g1, ds.n_items * f)]

\* ALS._build_model: seeds the generator, then draws user_embed and then
\* item_embed from it.
AlsBuildModel(g, sd, nu, ni, f) ==
    LET g0 == RngSeed(g, sd)
        g1 == RngAt(g0, nu * f)
    IN  [user_embed |-> TruncatedNormal(g0, nu, f),
         item_embed |-> TruncatedNormal(g1, ni, f),
         rng |-> RngAt(g1, ni * f)]

\* sampling(mode="train") and sampling(mode="test") of lines 28-30: they
\* change no model state and draw from the generator, one draw per training
\* example here.
EvalSampling(ds, g) == RngAt(g, Len(ds.train_user_indices))

\* P(u): the items the training pairs give user u.
Positives(ds, u) ==
    {At(ds.train_item_indices, k) : k \in {n \in 0..(Len(ds.train_user_indices) - 1) :
                                              At(ds.train_user_indices, n) = u}}

\* A negative draw without the rejection: the first item drawn is taken.
DrawNegativeAnyItem(ds, u, g, fuel) ==
    [ok |-> TRUE, item |-> RngInt(g, ds.n_items), rng |-> RngNext(g)]

\* Rejection sampling of the negative item: draw uniformly from all items until
\* one outside P(u) comes; the generator has period RngMod, so a full period
\* without one is a loop that never ends.
RECURSIVE DrawNegative(_, _, _, _)
DrawNegative(ds, u, g, fuel) ==
    IF RngInt(g, ds.n_items) \notin Positives(ds, u)
    THEN [ok |-> TRUE, item |-> RngInt(g, ds.n_items), rng |-> RngNext(g)]
    ELSE IF fuel = 0 THEN [ok |-> FALSE, item |-> 0, rng |-> g]
    ELSE DrawNegative(ds, u, RngNext(g), fuel - 1)

\* One bootstrap triple: a random user with a positive item, a random positive
\* item of theirs, a negative item by rejection.
BootstrapTriple(ds, g) ==
    LET users == {At(ds.train_user_indices, k) : k \in 0..(Len(ds.train_user_indices) - 1)}
        byRank(S, r) == CHOOSE e \in S : Cardinality({o \in S : o < e}) = r
        u == byRank(users, RngInt(g, Cardinality(users)))
        g1 == RngNext(g)
        i == byRank(Positives(ds, u), RngInt(g1, Cardinality(Positives(ds, u))))
        neg == DrawNegative(ds, u, RngNext(g1), RngMod)
    IN  [ok |-> neg.ok, user |-> u, item_i |-> i, item_j |-> neg.item, rng |-> neg.rng]

\* One epoch-ordered triple: the training pair at position k and a negative
\* item by rejection.
OrderedTriple(ds, k, g) ==
    LET u == At(ds.train_user_indices, k)
        neg == DrawNegative(ds, u, g, RngMod)
    IN  [ok |-> neg.ok, user |-> u, item_i |-> At(ds.train_item_indices, k),
         item_j |-> neg.item, rng |-> neg.rng]

\* x_uij = pu[u].qi[i] - pu[u].qi[j]
Score(p, q, u, i, j) == RSub(Dot(At(p, u), At(q, i)), Dot(At(p, u), At(q, j)))

\* The triples of one next_mf call with bootstrap=False: the training pairs at
\* positions first .. first+size-1, each with its own negative draw.
RECURSIVE OrderedBatch(_, _, _, _)
OrderedBatch(ds, first, size, g) ==
    IF size = 0 THEN [ok |-> TRUE, user |-> <<>>, item_i |-> <<>>, item_j |-> <<>>, rng |-> g]
    ELSE LET t == OrderedTriple(ds, first, g)
             rest == OrderedBatch(ds, first + 1, size - 1, t.rng)
         IN  IF ~t.ok THEN [ok |-> FALSE, user |-> <<>>, item_i |-> <<>>, item_j |-> <<>>, rng |-> g]
             ELSE [ok |-> rest.ok, user |-> <<t.user>> \o rest.user,
                   item_i |-> <<t.item_i>> \o rest.item_i,
                   item_j |-> <<t.item_j>> \o rest.item_j, rng |-> rest.rng]

\* sampling.next_mf(pu, qi, bootstrap): the triples and their scores.
NextMf(p, q, ds, g, bootstrap, first, size) ==
    LET t == BootstrapTriple(ds, g)
        b == IF bootstrap
             THEN [ok |-> t.ok, user |-> <<t.user>>, item_i |-> <<t.item_i>>,
                   item_j |-> <<t.item_j>>, rng |-> t.rng]
             ELSE OrderedBatch(ds, first, size, g)
    IN  [ok |-> b.ok, rng |-> b.rng,
         batch |-> [user |-> b.user, item_i |-> b.item_i, item_j |-> b.item_j,
                    x_uij |-> Eager([k \in 1..Len(b.user) |->
                                 Score(p, q, b.user[k], b.item_i[k], b.item_j[k])])]]

\* 1.0 / (1.0 + np.exp(x)): exactly 1/2 at 0, below it for x > 0 and above it
\* for x < 0; each side is represented by its midpoint.
SigmoidFactor(x) ==
    IF x[1] > 0 THEN RNorm(1, 4) ELSE IF x[1] = 0 THEN RNorm(1, 2) ELSE RNorm(3, 4)

\* mat with row k (0-based) replaced.
SetRow(mat, k, row) == Eager([r \in 1..Len(mat) |-> IF r = k + 1 THEN row ELSE mat[r]])

\* The three updates with the user row read before the step in all of them.
UpdateTripleFromOld(p, q, u, i, j, s, rate, rg) ==
    LET pNew == VecAdd(At(p, u), VecScale(rate,
                    VecAdd(VecScale(s, VecSub(At(q, i), At(q, j))), VecScale(rg, At(p, u)))))
        qiNew == VecAdd(At(q, i), VecScale(rate,
                    VecAdd(VecScale(s, At(p, u)), VecScale(rg, At(q, i)))))
        qjNew == VecAdd(At(q, j), VecScale(rate,
                    VecAdd(VecScale(s, VecScale(RNeg(One), At(p, u))), VecScale(rg, At(q, j)))))
    IN  [pu |-> SetRow(p, u, pNew), qi |-> SetRow(SetRow(q, i, qiNew), j, qjNew)]

\* The three statements with -= in place of +=.
UpdateTripleDescent(p, q, u, i, j, s, rate, rg) ==
    LET p1 == SetRow(p, u, VecSub(At(p, u), VecScale(rate,
                    VecAdd(VecScale(s, VecSub(At(q, i), At(q, j))), VecScale(rg, At(p, u))))))
        q1 == SetRow(q, i, VecSub(At(q, i), VecScale(rate,
                    VecAdd(VecScale(s, At(p1, u)), VecScale(rg, At(q, i))))))
        q2 == SetRow(q1, j, VecSub(At(q1, j), VecScale(rate,
                    VecAdd(VecScale(s, VecScale(RNeg(One), At(p1, u))), VecScale(rg, At(q1, j))))))
    IN  [pu |-> p1, qi |-> q2]

\* Lines 40-43 (and 68-71): three statements in sequence, each reading the
\* rows as the statements before it left them.
UpdateTriple(p, q, u, i, j, s, rate, rg) ==
    LET p1 == SetRow(p, u, VecAdd(At(p, u), VecScale(rate,
                    VecAdd(VecScale(s, VecSub(At(q, i), At(q, j))), VecScale(rg, At(p, u))))))
        q1 == SetRow(q, i, VecAdd(At(q, i), VecScale(rate,
                    VecAdd(VecScale(s, At(p1, u)), VecScale(rg, At(q, i))))))
        q2 == SetRow(q1, j, VecAdd(At(q1, j), VecScale(rate,
                    VecAdd(VecScale(s, VecScale(RNeg(One), At(p1, u))), VecScale(rg, At(q1, j))))))
    IN  [pu |-> p1, qi |-> q2]

\* mat[idx]: the rows at the ids of idx, in order.
Gather(mat, idx) == Eager([k \in 1..Len(idx) |-> At(mat, idx[k])])

\* mat[idx] = rows: each row written at its id; of the rows sharing an id the
\* last one stays.
Scatter(mat, idx, rows) ==
    Eager([r \in 1..Len(mat) |->
        LET hits == {k \in 1..Len(idx) : idx[k] = r - 1}
        IN  IF hits = {} THEN mat[r]
            ELSE rows[CHOOSE k \in hits : \A o \in hits : o <= k]])

\* The batch update with the item rows computed from the user rows as they
\* were before the first of the three statements.
UpdateBatchReadsOldUser(p, q, b, rate, rg) ==
    LET sig == Eager([k \in 1..Len(b.x_uij) |-> SigmoidFactor(b.x_uij[k])])
        n == Len(b.user)
        pRows == Gather(p, b.user)
        p1 == Scatter(p, b.user, Eager([k \in 1..n |->
                  VecAdd(pRows[k], VecScale(rate,
                      VecAdd(VecScale(sig[k], VecSub(At(q, b.item_i[k]), At(q, b.item_j[k]))),
                             VecScale(rg, pRows[k]))))]))
        q1 == Scatter(q, b.item_i, Eager([k \in 1..n |->
                  VecAdd(At(q, b.item_i[k]), VecScale(rate,
                      VecAdd(VecScale(sig[k], At(p, b.user[k])),
                             VecScale(rg, At(q, b.item_i[k])))))]))
        q2 == Scatter(q1, b.item_j, Eager([k \in 1..n |->
                  VecAdd(At(q1, b.item_j[k]), VecScale(rate,
                      VecAdd(VecScale(sig[k], VecScale(RNeg(One), At(p, b.user[k]))),
                             VecScale(rg, At(q1, b.item_j[k])))))]))
    IN  [pu |-> p1, qi |-> q2]

\* Lines 99-108: the three fancy-indexed updates of a batch, in sequence.
UpdateBatch(p, q, b, rate, rg) ==
    LET sig == Eager([k \in 1..Len(b.x_uij) |-> SigmoidFactor(b.x_uij[k])])
        n == Len(b.user)
        pRows == Gather(p, b.user)
        p1 == Scatter(p, b.user, Eager([k \in 1..n |->
                  VecAdd(pRows[k], VecScale(rate,
                      VecAdd(VecScale(sig[k], VecSub(At(q, b.item_i[k]), At(q, b.item_j[k]))),
                             VecScale(rg, pRows[k]))))]))
        q1 == Scatter(q, b.item_i, Eager([k \in 1..n |->
                  VecAdd(At(q, b.item_i[k]), VecScale(rate,
                      VecAdd(VecScale(sig[k], At(p1, b.user[k])),
                             VecScale(rg, At(q, b.item_i[k])))))]))
        q2 == Scatter(q1, b.item_j, Eager([k \in 1..n |->
                  VecAdd(At(q1, b.item_j[k]), VecScale(rate,
                      VecAdd(VecScale(sig[k], VecScale(RNeg(One), At(p1, b.user[k]))),
                             VecScale(rg, At(q1, b.item_j[k])))))]))
    IN  [pu |-> p1, qi |-> q2]

\* A numpy index k into an axis of length n: ids -n..-1 count from the end,
\* anything outside -n..n-1 is an IndexError.
IndexInBounds(n, k) == -n <= k /\ k < n
PyIndex(n, k) == IF k < 0 THEN k + n ELSE k

\* 1.0 / (1.0 + np.exp(-logits)), by the same three classes as SigmoidFactor.
Sigmoid(z) ==
    IF z[1] > 0 THEN RNorm(3, 4) ELSE IF z[1] = 0 THEN RNorm(1, 2) ELSE RNorm(1, 4)

\* predict(u, i)
BprPredict(p, q, u, i) ==
    IF IndexInBounds(Len(p), u) /\ IndexInBounds(Len(q), i)
    THEN LET logits == Dot(At(p, PyIndex(Len(p), u)), At(q, PyIndex(Len(q), i)))
             prob == Sigmoid(logits)
         IN  [prob |-> prob, pred |-> IF ~RLt(prob, RNorm(1, 2)) THEN One ELSE Zero]
    ELSE [prob |-> Zero, pred |-> Zero]

\* Constructor arguments and fit arguments.
LrVals == {R(2), R(4)}
BprRegVals == {Zero, RNorm(1, 4)}
FactorVals == {2}
SeedVals == {0, 42}
BatchSizeVals == {1, 2}
SamplingModeVals == {"bootstrap", "sgd", "batch", "minibatch"}
VerboseVals == {0, 1}

\* Datasets: two users who each lack an item; a user (1) who has every item;
\* two users with one item each; two users with one item each of four, so
\* that a batch of two triples can hold four different items.
Datasets ==
    { [n_users |-> 2, n_items |-> 3,
       train_user_indices |-> <<0, 0, 1>>, train_item_indices |-> <<0, 1, 2>>],
      [n_users |-> 2, n_items |-> 2,
       train_user_indices |-> <<0, 1, 1>>, train_item_indices |-> <<0, 0, 1>>],
      [n_users |-> 2, n_items |-> 2,
       train_user_indices |-> <<0, 1>>, train_item_indices |-> <<1, 0>>],
      [n_users |-> 2, n_items |-> 4,
       train_user_indices |-> <<0, 1>>, train_item_indices |-> <<0, 1>>] }

\* The shapes data_info gives the ALS constructor.
AlsUserCounts == {2}
AlsItemCounts == {2, 3}

\* The ids predict is called with: inside the vocabulary, below zero within
\* and beyond the wrap-around, and past the end.
PredictIds == {-4, -1, 0, 3}

\* __init__; nothing else exists yet.
BprInit ==
    /\ lr \in LrVals /\ bpr_reg \in BprRegVals /\ n_factors \in FactorVals
    /\ seed \in SeedVals /\ batch_size \in BatchSizeVals
    /\ bpr_n_epochs \in 1..MaxBprEpochs /\ iteration \in {1, MaxSteps}
    /\ rng = 0
    /\ dataset = NoDataset /\ pu = <<>> /\ qi = <<>>
    /\ sampling_mode = "" /\ verbose = 0 /\ bpr_pc = "idle"
    /\ bpr_epoch = 0 /\ bpr_i = 0 /\ batch = NoBatch /\ n_updates = 0
    /\ pred_out = NoPrediction
    /\ FitIdle
    /\ PassIdle
    /\ SrvIdle

\* The training steps a fit call with these arguments is to make.
StepCount(md, ds) ==
    IF md = "bootstrap" THEN iteration
    ELSE IF md = "sgd" THEN bpr_n_epochs * Len(ds.train_user_indices)
    ELSE IF md = "batch" THEN bpr_n_epochs * (Len(ds.train_user_indices) \div batch_size)
    ELSE 0

\* fit with build_model called only while the model has no matrices yet.
BprFitKeepsModel(ds, md, vb) ==
    /\ bpr_pc \in {"idle", "returned", "value_error"}
    /\ StepCount(md, ds) <= MaxSteps
    /\ \E g0 \in {IF vb > 0 THEN EvalSampling(ds, rng) ELSE rng} :
       \E built \in {BprBuildModel(ds, g0, seed, n_factors)} :
           /\ dataset' = ds
           /\ pu' = IF pu = <<>> \/ dataset # ds THEN built.pu ELSE pu
           /\ qi' = IF qi = <<>> \/ dataset # ds THEN built.qi ELSE qi
           /\ rng' = built.rng
    /\ sampling_mode' = md
    /\ verbose' = vb
    /\ bpr_pc' = IF md \notin {"bootstrap", "sgd", "batch"} THEN "value_error"
                 ELSE IF StepCount(md, ds) = 0 THEN "returned"
                 ELSE md
    /\ bpr_epoch' = IF md \in {"sgd", "batch"} THEN 1 ELSE 0
    /\ bpr_i' = 0
    /\ batch' = NoBatch
    /\ n_updates' = 0
    /\ pred_out' = NoPrediction
    /\ UNCHANGED <<lr, bpr_reg, bpr_n_epochs, iteration, batch_size, n_factors, seed>>
    /\ UNCHANGED <<fitVars, passVars, srvVars>>

\* fit(dataset, sampling_mode, verbose) up to its first training step (lines
\* 27-34, 61, 88, 125-126).
BprFit(ds, md, vb) ==
    /\ bpr_pc \in {"idle", "returned", "value_error"}
    /\ StepCount(md, ds) <= MaxSteps
    /\ \E g0 \in {IF vb > 0 THEN EvalSampling(ds, rng) ELSE rng} :
       \E built \in {BprBuildModel(ds, g0, seed, n_factors)} :
           /\ dataset' = ds
           /\ pu' = built.pu
           /\ qi' = built.qi
           /\ rng' = built.rng
    /\ sampling_mode' = md
    /\ verbose' = vb
    /\ bpr_pc' = IF md \notin {"bootstrap", "sgd", "batch"} THEN "value_error"
                 ELSE IF StepCount(md, ds) = 0 THEN "returned"
                 ELSE md
    /\ bpr_epoch' = IF md \in {"sgd", "batch"} THEN 1 ELSE 0
    /\ bpr_i' = 0
    /\ batch' = NoBatch
    /\ n_updates' = 0
    /\ pred_out' = NoPrediction
    /\ UNCHANGED <<lr, bpr_reg, bpr_n_epochs, iteration, batch_size, n_factors, seed>>
    /\ UNCHANGED <<fitVars, passVars, srvVars>>

\* What a training step leaves behind: the triples it consumed, the updated
\* rows, the generator, and the loops' position.
StepDone(nm, upd, perEpoch) ==
    /\ pu' = upd.pu
    /\ qi' = upd.qi
    /\ rng' = nm.rng
    /\ batch' = nm.batch
    /\ n_updates' = n_updates + 1
    /\ IF bpr_i + 1 < perEpoch
       THEN bpr_i' = bpr_i + 1 /\ UNCHANGED <<bpr_epoch, bpr_pc>>
       ELSE IF bpr_epoch < bpr_n_epochs /\ bpr_pc # "bootstrap"
       THEN bpr_i' = 0 /\ bpr_epoch' = bpr_epoch + 1 /\ UNCHANGED bpr_pc
       ELSE bpr_i' = bpr_i + 1 /\ bpr_pc' = "returned" /\ UNCHANGED bpr_epoch

\* The negative draw of a step never ends.
StepHangs ==
    /\ bpr_pc' = "sampling"
    /\ UNCHANGED <<pu, qi, rng, batch, n_updates, bpr_i, bpr_epoch>>

\* One pass of the loop of lines 37-43.
BootstrapStep ==
    /\ bpr_pc = "bootstrap"
    /\ \E nm \in {NextMf(pu, qi, dataset, rng, TRUE, 0, 1)} :
           IF nm.ok
           THEN StepDone(nm, UpdateTriple(pu, qi, nm.batch.user[1], nm.batch.item_i[1],
                                          nm.batch.item_j[1], SigmoidFactor(nm.batch.x_uij[1]),
                                          lr, bpr_reg), iteration)
           ELSE StepHangs
    /\ UNCHANGED <<lr, bpr_reg, bpr_n_epochs, iteration, batch_size, n_factors, seed,
                   dataset, sampling_mode, verbose, pred_out>>
    /\ UNCHANGED <<fitVars, passVars, srvVars>>

\* One pass of the inner loop of lines 65-71.
SgdStep ==
    /\ bpr_pc = "sgd"
    /\ \E nm \in {NextMf(pu, qi, dataset, rng, FALSE, bpr_i, 1)} :
           IF nm.ok
           THEN StepDone(nm, UpdateTriple(pu, qi, nm.batch.user[1], nm.batch.item_i[1],
                                          nm.batch.item_j[1], SigmoidFactor(nm.batch.x_uij[1]),
                                          lr, bpr_reg), Len(dataset.train_user_indices))
           ELSE StepHangs
    /\ UNCHANGED <<lr, bpr_reg, bpr_n_epochs, iteration, batch_size, n_factors, seed,
                   dataset, sampling_mode, verbose, pred_out>>
    /\ UNCHANGED <<fitVars, passVars, srvVars>>

\* One pass of the inner loop of lines 93-108.
BatchStep ==
    /\ bpr_pc = "batch"
    /\ \E nm \in {NextMf(pu, qi, dataset, rng, FALSE, bpr_i * batch_size, batch_size)} :
           IF nm.ok
           THEN StepDone(nm, UpdateBatch(pu, qi, nm.batch, lr, bpr_reg),
                         Len(dataset.train_user_indices) \div batch_size)
           ELSE StepHangs
    /\ UNCHANGED <<lr, bpr_reg, bpr_n_epochs, iteration, batch_size, n_factors, seed,
                   dataset, sampling_mode, verbose, pred_out>>
    /\ UNCHANGED <<fitVars, passVars, srvVars>>

\* predict(u, i) on a model a fit call has built.
BprPredictCall(u, i) ==
    /\ bpr_pc \in {"returned", "value_error"}
    /\ LET out == BprPredict(pu, qi, u, i)
       IN  pred_out' = [u |-> u, i |-> i, prob |-> out.prob, pred |-> out.pred, called |-> TRUE]
    /\ UNCHANGED <<lr, bpr_reg, bpr_n_epochs, iteration, batch_size, n_factors, seed,
                   dataset, pu, qi, rng, sampling_mode, verbose, bpr_pc, bpr_epoch, bpr_i,
                   batch, n_updates>>
    /\ UNCHANGED <<fitVars, passVars, srvVars>>

\* ALS.__init__ in the same process, between two calls on the BPR model: the
\* constructor ends in _build_model, which draws from the generator the BPR
\* model uses. The data_info has nu users with nothing consumed and ni items;
\* seed and embed_size are the ones the BPR model was given.
AlsConstruct(tk, nu, ni) ==
    /\ bpr_pc \in {"idle", "returned", "value_error"}
    /\ \E built \in {AlsBuildModel(rng, seed, nu, ni, n_factors)} :
           /\ user_factors' = built.user_embed
           /\ item_factors' = built.item_embed
           /\ rng' = built.rng
    /\ model_kind' = "ALS"
    /\ model_task' = tk
    /\ user_consumed' = [u \in 1..nu |-> <<>>]
    /\ UNCHANGED <<bu, bi, net_output, global_mean, lower_bound, upper_bound, call_out>>
    /\ UNCHANGED <<lr, bpr_reg, bpr_n_epochs, iteration, batch_size, n_factors, seed,
                   dataset, pu, qi, sampling_mode, verbose, bpr_pc, bpr_epoch, bpr_i,
                   batch, n_updates, pred_out>>
    /\ UNCHANGED <<fitVars, passVars>>

BprNext ==
    \/ \E ds \in Datasets, md \in SamplingModeVals, vb \in VerboseVals : BprFit(ds, md, vb)
    \/ BootstrapStep
    \/ SgdStep
    \/ BatchStep
    \/ \E u \in PredictIds, i \in PredictIds : BprPredictCall(u, i)

SpecBPR == BprInit /\ [][BprNext]_vars

\* A process that constructs ALS models and fits the BPR model, in any order;
\* predict, which neither draws from the generator nor writes a matrix, is
\* left out.
BuildNext ==
    \/ \E tk \in TaskVals, nu \in AlsUserCounts, ni \in AlsItemCounts : AlsConstruct(tk, nu, ni)
    \/ \E ds \in Datasets, md \in SamplingModeVals, vb \in VerboseVals : BprFit(ds, md, vb)
    \/ BootstrapStep
    \/ SgdStep
    \/ BatchStep

SpecBuild == BprInit /\ [][BuildNext]_vars

\* A model that has been trained: the state fit(ds, "bootstrap", verbose=0)
\* with iteration = 1 returns in, on a model constructed as in BprInit.
TrainedInit ==
    /\ lr \in LrVals /\ bpr_reg \in BprRegVals /\ n_factors \in FactorVals
    /\ seed \in SeedVals /\ batch_size \in BatchSizeVals
    /\ bpr_n_epochs \in 1..MaxBprEpochs /\ iteration = 1
    /\ dataset \in Datasets
    /\ \E built \in {BprBuildModel(dataset, 0, seed, n_factors)} :
       \E nm \in {NextMf(built.pu, built.qi, dataset, built.rng, TRUE, 0, 1)} :
       \E upd \in {UpdateTriple(built.pu, built.qi, nm.batch.user[1], nm.batch.item_i[1],
                                 nm.batch.item_j[1], SigmoidFactor(nm.batch.x_uij[1]),
                                 lr, bpr_reg)} :
           /\ nm.ok
           /\ pu = upd.pu /\ qi = upd.qi /\ rng = nm.rng /\ batch = nm.batch
    /\ sampling_mode = "bootstrap" /\ verbose = 0 /\ bpr_pc = "returned"
    /\ bpr_epoch = 0 /\ bpr_i = 1 /\ n_updates = 1
    /\ pred_out = NoPrediction
    /\ FitIdle
    /\ PassIdle
    /\ SrvIdle

\* Fit calls, and their training steps, on the trained model.
RefitNext ==
    \/ \E ds \in Datasets, md \in SamplingModeVals, vb \in VerboseVals : BprFit(ds, md, vb)
    \/ BootstrapStep
    \/ SgdStep
    \/ BatchStep

SpecRefit == TrainedInit /\ [][RefitNext]_vars

\* ---------------------------------------------------------------------------
\* Properties of BPR
\* ---------------------------------------------------------------------------

\* Triple k of batch b shares its user with no other triple of b, and its two
\* items with no other triple of b.
Isolated(b, k) ==
    \A o \in 1..Len(b.user) : o # k =>
        /\ b.user[o] # b.user[k]
        /\ {b.item_i[o], b.item_j[o]} \cap {b.item_i[k], b.item_j[k]} = {}

\* C2: in every training step (bootstrap, sgd, batch), for every triple
\* (u, i, j) the step consumes, the three rows pu[u], qi[i], qi[j] after the
\* step are the rows before it plus increments computed from the rows before
\* it: pu[u] + lr*(s*(qi[i]-qi[j]) + reg*pu[u]), qi[i] + lr*(s*pu[u] +
\* reg*qi[i]), qi[j] + lr*(s*(-pu[u]) + reg*qi[j]), the same pre-step pu[u] in
\* all three.  (In a batch, stated for the triples that share no row with
\* another triple.)
C2_IncrementsFromPreUpdateValues ==
    [][n_updates' = n_updates + 1 =>
        \A k \in 1..Len(batch'.user) :
            LET u == batch'.user[k]
                i == batch'.item_i[k]
                j == batch'.item_j[k]
                ref == UpdateTripleFromOld(pu, qi, u, i, j,
                                           SigmoidFactor(batch'.x_uij[k]), lr, bpr_reg)
            IN  Isolated(batch', k) =>
                    /\ At(pu', u) = At(ref.pu, u)
                    /\ At(qi', i) = At(ref.qi, i)
                    /\ At(qi', j) = At(ref.qi, j)]_vars

\* The user ids of batch b are pairwise distinct, and so are its item ids,
\* positive and negative taken together.
DistinctIds(b) ==
    /\ \A a, c \in 1..Len(b.user) : a # c => b.user[a] # b.user[c]
    /\ Cardinality({b.item_i[k] : k \in 1..Len(b.user)}
                       \cup {b.item_j[k] : k \in 1..Len(b.user)}) = 2 * Len(b.user)

\* The single-triple update of the sgd path applied to the triples of b at
\* the positions ks, one after another, each with the score b holds for it.
RECURSIVE SgdPath(_, _, _, _)
SgdPath(p, q, b, ks) ==
    IF ks = <<>> THEN [pu |-> p, qi |-> q]
    ELSE LET k == ks[1] + 1
             upd == UpdateTriple(p, q, b.user[k], b.item_i[k], b.item_j[k],
                                 SigmoidFactor(b.x_uij[k]), lr, bpr_reg)
         IN  SgdPath(upd.pu, upd.qi, b, Tail(ks))

\* C21: a batch step on a batch whose user ids are pairwise distinct and
\* whose item ids are pairwise distinct leaves pu and qi as the sgd update
\* applied to the same triples one after another does, in every order of the
\* triples, with the scores the batch was sampled with.
C21_BatchIsSequentialSgd ==
    [][(n_updates' = n_updates + 1 /\ bpr_pc = "batch" /\ DistinctIds(batch')) =>
        \A ks \in RowOrders(Len(batch'.user)) :
            /\ pu' = SgdPath(pu, qi, batch', ks).pu
            /\ qi' = SgdPath(pu, qi, batch', ks).qi]_vars

\* A batch step has consumed two triples with two users and four items.
C21_Witness ==
    /\ sampling_mode = "batch" /\ n_updates >= 1 /\ Len(batch.user) = 2
    /\ DistinctIds(batch)

\* C8: every triple (u, i, j) a training step has consumed, in every sampling
\* mode, has i in P(u) and j outside P(u), hence i # j.
C8_TriplesValid ==
    \A k \in 1..Len(batch.user) :
        /\ batch.item_i[k] \in Positives(dataset, batch.user[k])
        /\ batch.item_j[k] \notin Positives(dataset, batch.user[k])
        /\ batch.item_i[k] # batch.item_j[k]

\* A batch step has consumed two triples, one of them of a user with two
\* positive items, for whom a uniform draw lands in P(u) more often than not.
C8_Witness ==
    /\ sampling_mode = "batch"
    /\ n_updates >= 1
    /\ Len(batch.user) = 2
    /\ \E k \in 1..2 : Cardinality(Positives(dataset, batch.user[k])) = 2

\* C9: a fit call with a sampling_mode other than bootstrap, sgd and batch
\* ends in the ValueError with no triple sampled, no training step applied,
\* and the model's dataset, pu and qi as they were before the call.
C9_InvalidModeChangesNothing ==
    [][(bpr_pc' = "value_error" /\ sampling_mode' \notin {"bootstrap", "sgd", "batch"}) =>
        /\ batch' = batch
        /\ n_updates' = n_updates
        /\ dataset' = dataset
        /\ pu' = pu
        /\ qi' = qi]_vars

\* C10: predict(u, i) returns (0, 0) for every user id outside 0..n_users-1
\* and every item id outside 0..n_items-1, negative ids included; for ids
\* inside it returns the sigmoid of pu[u].qi[i], and label 1 exactly when that
\* probability is at least 1/2.
C10_PredictOutOfVocabulary ==
    pred_out.called =>
        IF pred_out.u \in 0..(dataset.n_users - 1) /\ pred_out.i \in 0..(dataset.n_items - 1)
        THEN /\ pred_out.prob = Sigmoid(Dot(At(pu, pred_out.u), At(qi, pred_out.i)))
             /\ pred_out.pred = IF RLt(pred_out.prob, RNorm(1, 2)) THEN Zero ELSE One
        ELSE pred_out.prob = Zero /\ pred_out.pred = Zero

\* The update steps the mode of the current fit call fixes, and the triples
\* of each.
ModeSteps ==
    LET train_size == Len(dataset.train_user_indices)
    IN  IF sampling_mode = "bootstrap" THEN iteration
        ELSE IF sampling_mode = "sgd" THEN bpr_n_epochs * train_size
        ELSE IF sampling_mode = "batch" THEN bpr_n_epochs * (train_size \div batch_size)
        ELSE 0
ModeTriples == IF sampling_mode = "batch" THEN batch_size ELSE 1

\* C15: a fit call applies exactly the steps its mode fixes, each
\* on one triple (bootstrap, sgd) or on batch_size triples (batch), and then
\* terminates: it never stays in the negative draw of a step.
C15_StepsThenTerminates ==
    /\ n_updates <= ModeSteps
    /\ (bpr_pc = "returned") => (n_updates = ModeSteps)
    /\ (bpr_pc \in {"bootstrap", "sgd", "batch"}) => (n_updates < ModeSteps)
    /\ (n_updates > 0) => (Len(batch.user) = ModeTriples)
    /\ bpr_pc # "sampling"

\* C16: a step on a single triple (u, i, j) whose score gap pu[u].qi[i] -
\* pu[u].qi[j] was above zero before the step leaves a gap that is not below
\* it, for every learning rate and regularisation weight of the model.
C16_GapNotDecreased ==
    [][(n_updates' = n_updates + 1 /\ Len(batch'.user) = 1
            /\ RLt(Zero, Score(pu, qi, batch'.user[1], batch'.item_i[1], batch'.item_j[1])))
        => ~RLt(Score(pu', qi', batch'.user[1], batch'.item_i[1], batch'.item_j[1]),
                Score(pu, qi, batch'.user[1], batch'.item_i[1], batch'.item_j[1]))]_vars

\* A single-triple step has been applied to a triple whose gap was above zero,
\* with a regularisation weight above zero, and the gap is larger now.
C16_Witness ==
    /\ n_updates >= 1 /\ Len(batch.user) = 1 /\ RLt(Zero, batch.x_uij[1])
    /\ RLt(Zero, bpr_reg)
    /\ RLt(batch.x_uij[1], Score(pu, qi, batch.user[1], batch.item_i[1], batch.item_j[1]))

\* C22: every fit call on a trained model leaves pu and qi as build_model
\* gives them from the seed and the shapes of the dataset, whatever pu, qi and
\* the generator held before the call; they stay so until the first training
\* step, and the scores of that step are computed from them.
C22_FitRebuildsFromSeed ==
    /\ [][(bpr_pc \in {"idle", "returned", "value_error"} /\ pred_out' = NoPrediction) =>
            /\ n_updates' = 0
            /\ \A g \in 0..(RngMod - 1) :
                  /\ pu' = BprBuildModel(dataset', g, seed, n_factors).pu
                  /\ qi' = BprBuildModel(dataset', g, seed, n_factors).qi]_vars
    /\ [][(n_updates = 0 /\ n_updates' = 1) =>
            /\ pu = BprBuildModel(dataset, 0, seed, n_factors).pu
            /\ qi = BprBuildModel(dataset, 0, seed, n_factors).qi
            /\ \A k \in 1..Len(batch'.user) :
                  batch'.x_uij[k] = Score(BprBuildModel(dataset, 0, seed, n_factors).pu,
                                          BprBuildModel(dataset, 0, seed, n_factors).qi,
                                          batch'.user[k], batch'.item_i[k], batch'.item_j[k])]_vars

\* A fit call on the trained model has just rebuilt the matrices: no step of
\* the new call has run, and the rows are at their seed values.
C22_Witness ==
    /\ n_updates = 0 /\ bpr_pc \in {"bootstrap", "sgd", "batch"}
    /\ batch = NoBatch
    /\ pu = BprBuildModel(dataset, 0, seed, n_factors).pu
    /\ qi = BprBuildModel(dataset, 0, seed, n_factors).qi

\* C14: the matrices build_model of BPR and _build_model of ALS leave are the
\* ones the seed and the shapes determine: they are what the construction
\* gives from every state the process-wide generator can be in before the
\* call, the state after the evaluation sampling of fit(verbose > 0) and the
\* state another model's construction left included.
C14_BuildDeterministicInSeed ==
    \A g \in 0..(RngMod - 1) :
        /\ (dataset # NoDataset /\ n_updates = 0) =>
               /\ pu = BprBuildModel(dataset, g, seed, n_factors).pu
               /\ qi = BprBuildModel(dataset, g, seed, n_factors).qi
        /\ (model_kind = "ALS") =>
               /\ user_factors = AlsBuildModel(g, seed, Len(user_factors),
                                               Len(item_factors), n_factors).user_embed
               /\ item_factors = AlsBuildModel(g, seed, Len(user_factors),
                                               Len(item_factors), n_factors).item_embed

\* A BPR model built after the evaluation sampling moved the generator, next
\* to an ALS model built when the generator was no longer in its first state.
C14_Witness ==
    /\ dataset # NoDataset /\ n_updates = 0 /\ verbose = 1
    /\ model_kind = "ALS" /\ rng # RngSeed(0, seed)
    /\ pu # <<>> /\ user_factors # <<>>

\* ---------------------------------------------------------------------------
\* predict and recommend_user of ALS (libreco/algorithms/als.py), SVD (svd.py)
\* and DeepFM (deepfm.py)
\* ---------------------------------------------------------------------------

\* The model as the calls read it.
Model == [kind |-> model_kind, task |-> model_task, P |-> user_factors,
          Q |-> item_factors, bu |-> bu, bi |-> bi, output |-> net_output,
          global_mean |-> global_mean, lower_bound |-> lower_bound,
          upper_bound |-> upper_bound, user_consumed |-> user_consumed]

\* data_info.n_users, data_info.n_items
NUsers(mdl) == Len(mdl.user_consumed)
NItems(mdl) == IF mdl.kind = "DeepFM" THEN Len(mdl.output[1]) ELSE Len(mdl.Q)

\* self.default_prediction
DefaultPrediction(mdl) == IF mdl.task = "rating" THEN mdl.global_mean ELSE Zero

RAbs(a) == IF a[1] < 0 THEN RNeg(a) ELSE a

\* np.clip(x, lo, hi)
Clip(x, lo, hi) == IF RLt(x, lo) THEN lo ELSE IF RLt(hi, x) THEN hi ELSE x

\* 1 / (1 + np.exp(-z)) where the order of the values matters: a strictly
\* increasing map onto (0, 1) with value 1/2 at 0 and Expit(-z) = 1 - Expit(z).
Expit(z) == RDiv(RAdd(RAdd(One, RAbs(z)), z), RMul(R(2), RAdd(One, RAbs(z))))

\* Base._check_unknown(user, item): the positions whose user or item is outside
\* the vocabulary, and the two arrays with id 0 put at those positions.
CheckUnknown(mdl, users, items) ==
    LET unknown == {k \in 1..Len(users) :
                        \/ users[k] \notin 0..(NUsers(mdl) - 1)
                        \/ items[k] \notin 0..(NItems(mdl) - 1)}
    IN  [unknown_num |-> Cardinality(unknown),
         unknown_index |-> unknown,
         user |-> Eager([k \in 1..Len(users) |-> IF k \in unknown THEN 0 ELSE users[k]]),
         item |-> Eager([k \in 1..Len(items) |-> IF k \in unknown THEN 0 ELSE items[k]])]

\* preds[unknown_index] = self.default_prediction, when unknown_num > 0
PutDefault(mdl, preds, chk) ==
    IF chk.unknown_num > 0
    THEN Eager([k \in 1..Len(preds) |->
             IF k \in chk.unknown_index THEN DefaultPrediction(mdl) ELSE preds[k]])
    ELSE preds

\* return preds[0] if len(user) == 1 else preds
PredictResult(users, items, preds) ==
    [op |-> "predict", users |-> users, items |-> items, n_rec |-> 0,
     kind |-> IF Len(preds) = 1 THEN "scalar" ELSE "array",
     value |-> IF Len(preds) = 1 THEN preds[1] ELSE preds]

\* ALS.predict without lines 141-142: the unknown positions keep the score of
\* the ids that stand in for them.
AlsPredictNoFallback(mdl, users, items) ==
    LET chk == CheckUnknown(mdl, users, items)
        dots == Eager([k \in 1..Len(users) |->
                    Dot(At(mdl.P, chk.user[k]), At(mdl.Q, chk.item[k]))])
        preds == IF mdl.task = "rating"
                 THEN Eager([k \in 1..Len(dots) |->
                          Clip(dots[k], mdl.lower_bound, mdl.upper_bound)])
                 ELSE Eager([k \in 1..Len(dots) |-> Expit(dots[k])])
    IN  PredictResult(users, items, preds)

\* ALS.predict(user, item), user and item as the arrays lines 119-122 make.
AlsPredict(mdl, users, items) ==
    LET chk == CheckUnknown(mdl, users, items)
        dots == Eager([k \in 1..Len(users) |->
                    Dot(At(mdl.P, chk.user[k]), At(mdl.Q, chk.item[k]))])
        preds == IF mdl.task = "rating"
                 THEN Eager([k \in 1..Len(dots) |->
                          Clip(dots[k], mdl.lower_bound, mdl.upper_bound)])
                 ELSE Eager([k \in 1..Len(dots) |-> Expit(dots[k])])
    IN  PredictResult(users, items, PutDefault(mdl, preds, chk))

\* SVD.predict(user, item)
SvdPredict(mdl, users, items) ==
    LET chk == CheckUnknown(mdl, users, items)
        sums == Eager([k \in 1..Len(users) |->
                    RAdd(RAdd(At(mdl.bu, chk.user[k]), At(mdl.bi, chk.item[k])),
                         Dot(At(mdl.P, chk.user[k]), At(mdl.Q, chk.item[k])))])
        preds == IF mdl.task = "rating"
                 THEN Eager([k \in 1..Len(sums) |->
                          Clip(RAdd(sums[k], mdl.global_mean),
                               mdl.lower_bound, mdl.upper_bound)])
                 ELSE Eager([k \in 1..Len(sums) |-> Expit(sums[k])])
    IN  PredictResult(users, items, PutDefault(mdl, preds, chk))

\* A Python value that is None or an int.
PyNone == [none |-> TRUE, value |-> 0]
PyInt(k) == [none |-> FALSE, value |-> k]

\* not v: None and 0 are both falsy.
PyNot(v) == v.none \/ v.value = 0

\* Base._check_unknown_user(user): the id of a user of the vocabulary, None
\* for any other.
CheckUnknownUser(mdl, user) ==
    IF user \in 0..(NUsers(mdl) - 1) THEN PyInt(user) ELSE PyNone

\* ALS: recos = self.user_embed[user] @ self.item_embed.T, through the
\* sigmoid for "ranking" (lines 153-155).
AlsRecos(mdl, user) ==
    LET raw == Eager([i \in 1..NItems(mdl) |-> Dot(At(mdl.P, user), mdl.Q[i])])
    IN  IF mdl.task = "ranking" THEN Eager([i \in 1..Len(raw) |-> Expit(raw[i])]) ELSE raw

\* SVD: recos = self.bu[user] + self.bi + self.pu[user] @ self.qi.T, plus the
\* global mean for "rating", through the sigmoid for "ranking" (lines 168-173).
SvdRecos(mdl, user) ==
    LET raw == Eager([i \in 1..NItems(mdl) |->
                   RAdd(RAdd(At(mdl.bu, user), mdl.bi[i]), Dot(At(mdl.P, user), mdl.Q[i]))])
    IN  IF mdl.task = "rating"
        THEN Eager([i \in 1..Len(raw) |-> RAdd(raw[i], mdl.global_mean)])
        ELSE IF mdl.task = "ranking" THEN Eager([i \in 1..Len(raw) |-> Expit(raw[i])])
        ELSE raw

\* DeepFM: recos = self.sess.run(self.output, feed_dict), through the sigmoid
\* for "ranking" (lines 326-328).
DeepFmRecos(mdl, user) ==
    LET raw == At(mdl.output, user)
    IN  IF mdl.task = "ranking" THEN Eager([i \in 1..Len(raw) |-> Expit(raw[i])]) ELSE raw

\* np.argpartition(recos, -count)[-count:]: the ids of count items none of
\* which scores below an item left out, in an order numpy does not promise.
TopSelections(recos, count) ==
    {ids \in [1..count -> 0..(Len(recos) - 1)] :
        /\ \A a, b \in 1..count : a # b => ids[a] # ids[b]
        /\ \A a \in 1..count : \A o \in 0..(Len(recos) - 1) :
               (\A b \in 1..count : ids[b] # o) => ~RLt(At(recos, ids[a]), At(recos, o))}

\* One insertion of sorted(..., key=lambda x: -x[1]): rec goes behind every
\* pair that scores at least as much (the sort is stable).
InsertByScore(rank, rec) ==
    LET ahead == Cardinality({k \in 1..Len(rank) : ~RLt(rank[k][2], rec[2])})
    IN  SubSeq(rank, 1, ahead) \o <<rec>> \o SubSeq(rank, ahead + 1, Len(rank))

\* rank = sorted(zip(ids, recos[ids]), key=lambda x: -x[1])
RECURSIVE SortedByScore(_, _, _)
SortedByScore(ids, recos, done) ==
    IF ids = <<>> THEN done
    ELSE SortedByScore(Tail(ids), recos,
                       InsertByScore(done, <<Head(ids), At(recos, Head(ids))>>))

\* list(islice((rec for rec in rank if rec[0] not in consumed), n_rec))
RECURSIVE TakeUnconsumed(_, _, _)
TakeUnconsumed(rank, consumed, n) ==
    IF n = 0 \/ rank = <<>> THEN <<>>
    ELSE IF \E k \in 1..Len(consumed) : consumed[k] = Head(rank)[1]
    THEN TakeUnconsumed(Tail(rank), consumed, n)
    ELSE <<Head(rank)>> \o TakeUnconsumed(Tail(rank), consumed, n - 1)

RecommendResult(user, n_rec, kind, value) ==
    [op |-> "recommend_user", users |-> <<user>>, items |-> <<>>, n_rec |-> n_rec,
     kind |-> kind, value |-> value]

\* The selections line 157 (174, 332) may make; the call raises ValueError
\* there when count exceeds the number of items, and returns before it for
\* a falsy user.
Selections(mdl, recos, user, n_rec) ==
    IF PyNot(CheckUnknownUser(mdl, user)) THEN {<<>>}
    ELSE IF n_rec + Len(At(mdl.user_consumed, user)) > Len(recos) THEN {<<>>}
    ELSE TopSelections(recos, n_rec + Len(At(mdl.user_consumed, user)))

\* recommend_user from the scores on (lines 147-149 and 151-163 of als.py,
\* 162-164 and 166-180 of svd.py, 313-315 and 330-338 of deepfm.py), ids being
\* the selection argpartition made.
RecommendUser(mdl, recos, user, n_rec, ids) ==
    IF PyNot(CheckUnknownUser(mdl, user))
    THEN RecommendResult(user, n_rec, "none", <<>>)
    ELSE IF n_rec + Len(At(mdl.user_consumed, user)) > Len(recos)
    THEN RecommendResult(user, n_rec, "raised", <<>>)
    ELSE RecommendResult(user, n_rec, "list",
             TakeUnconsumed(SortedByScore(ids, recos, <<>>),
                            At(mdl.user_consumed, user), n_rec))

\* Trained models: two users, four items, two factors; items 1 and 2 score
\* alike under the first item matrix.
ModelKindVals == {"ALS", "SVD", "DeepFM"}
UserFactorVals == { << <<R(1), R(0)>>, <<R(2), R(1)>> >>,
                    << <<R(0), R(1)>>, <<R(-1), R(2)>> >> }
ItemFactorVals == { << <<R(3), R(0)>>, <<R(1), R(1)>>, <<R(1), R(1)>>, <<R(0), R(-1)>> >>,
                    << <<R(1), R(2)>>, <<R(-2), R(1)>>, <<R(0), R(3)>>, <<R(4), R(-1)>> >> }
BiasUserVals == { <<R(0), R(1)>> }
BiasItemVals == { <<R(0), R(1), R(0), R(-1)>> }
NetOutputVals == { << <<R(2), R(-1), R(0), R(5)>>, <<R(1), R(1), R(-3), R(4)>> >>,
                   << <<R(0), R(0), R(0), R(0)>>, <<R(6), R(2), R(2), R(1)>> >> }
GlobalMeanVals == { R(3), RNorm(7, 2) }
ConsumedVals == { << <<1>>, <<0, 2>> >>, << <<>>, <<3>> >> }

\* The arguments of the calls.
PredictArgs == { [user |-> <<1>>, item |-> <<2>>],
                 [user |-> <<-1>>, item |-> <<0>>],
                 [user |-> <<0>>, item |-> <<4>>],
                 [user |-> <<0, 2>>, item |-> <<1, 1>>],
                 [user |-> <<1, 0>>, item |-> <<5, 3>>],
                 [user |-> <<1, 0>>, item |-> <<0, 3>>] }
RecommendUsers == {-1, 0, 1, 2}
NRecVals == {1, 2, 3}

\* A trained model of one of the three classes.
SrvInit ==
    /\ model_kind \in ModelKindVals
    /\ model_task \in TaskVals
    /\ user_factors \in IF model_kind = "DeepFM" THEN {<<>>} ELSE UserFactorVals
    /\ item_factors \in IF model_kind = "DeepFM" THEN {<<>>} ELSE ItemFactorVals
    /\ bu \in IF model_kind = "SVD" THEN BiasUserVals ELSE {<<>>}
    /\ bi \in IF model_kind = "SVD" THEN BiasItemVals ELSE {<<>>}
    /\ net_output \in IF model_kind = "DeepFM" THEN NetOutputVals ELSE {<<>>}
    /\ global_mean \in GlobalMeanVals
    /\ lower_bound = R(1)
    /\ upper_bound = R(5)
    /\ user_consumed \in ConsumedVals
    /\ call_out = NoCall
    /\ FitIdle
    /\ PassIdle
    /\ BprIdle

AlsPredictCall(users, items) ==
    /\ model_kind = "ALS"
    /\ call_out' = AlsPredict(Model, users, items)
    /\ UNCHANGED <<model_kind, model_task, user_factors, item_factors, bu, bi, net_output,
                   global_mean, lower_bound, upper_bound, user_consumed>>
    /\ UNCHANGED <<fitVars, passVars, bprVars>>

SvdPredictCall(users, items) ==
    /\ model_kind = "SVD"
    /\ call_out' = SvdPredict(Model, users, items)
    /\ UNCHANGED <<model_kind, model_task, user_factors, item_factors, bu, bi, net_output,
                   global_mean, lower_bound, upper_bound, user_consumed>>
    /\ UNCHANGED <<fitVars, passVars, bprVars>>

AlsRecommendCall(user, n_rec) ==
    /\ model_kind = "ALS"
    /\ \E ids \in Selections(Model, AlsRecos(Model, user), user, n_rec) :
           call_out' = RecommendUser(Model, AlsRecos(Model, user), user, n_rec, ids)
    /\ UNCHANGED <<model_kind, model_task, user_factors, item_factors, bu, bi, net_output,
                   global_mean, lower_bound, upper_bound, user_consumed>>
    /\ UNCHANGED <<fitVars, passVars, bprVars>>

SvdRecommendCall(user, n_rec) ==
    /\ model_kind = "SVD"
    /\ \E ids \in Selections(Model, SvdRecos(Model, user), user, n_rec) :
           call_out' = RecommendUser(Model, SvdRecos(Model, user), user, n_rec, ids)
    /\ UNCHANGED <<model_kind, model_task, user_factors, item_factors, bu, bi, net_output,
                   global_mean, lower_bound, upper_bound, user_consumed>>
    /\ UNCHANGED <<fitVars, passVars, bprVars>>

DeepFmRecommendCall(user, n_rec) ==
    /\ model_kind = "DeepFM"
    /\ \E ids \in Selections(Model, DeepFmRecos(Model, user), user, n_rec) :
           call_out' = RecommendUser(Model, DeepFmRecos(Model, user), user, n_rec, ids)
    /\ UNCHANGED <<model_kind, model_task, user_factors, item_factors, bu, bi, net_output,
                   global_mean, lower_bound, upper_bound, user_consumed>>
    /\ UNCHANGED <<fitVars, passVars, bprVars>>

SrvNext ==
    \/ \E a \in PredictArgs : AlsPredictCall(a.user, a.item)
    \/ \E a \in PredictArgs : SvdPredictCall(a.user, a.item)
    \/ \E user \in RecommendUsers, n_rec \in NRecVals : AlsRecommendCall(user, n_rec)
    \/ \E user \in RecommendUsers, n_rec \in NRecVals : SvdRecommendCall(user, n_rec)
    \/ \E user \in RecommendUsers, n_rec \in NRecVals : DeepFmRecommendCall(user, n_rec)

SpecServe == SrvInit /\ [][SrvNext]_vars

\* ---------------------------------------------------------------------------
\* Properties of predict and recommend_user
\* ---------------------------------------------------------------------------

\* The score the model gives one known (user, item) pair.
PairScore(mdl, u, i) ==
    LET dot == Dot(At(mdl.P, u), At(mdl.Q, i))
        raw == IF mdl.kind = "SVD"
               THEN RAdd(RAdd(At(mdl.bu, u), At(mdl.bi, i)), dot)
               ELSE dot
    IN  IF mdl.task = "ranking" THEN Expit(raw)
        ELSE Clip(IF mdl.kind = "SVD" THEN RAdd(raw, mdl.global_mean) ELSE raw,
                  mdl.lower_bound, mdl.upper_bound)

\* The values of the last predict call, one for each position.
PredictValues == IF call_out.kind = "scalar" THEN <<call_out.value>> ELSE call_out.value

\* C11: ALS.predict and SVD.predict do not raise on unknown ids; every
\* position whose user or item is outside the vocabulary gets the default
\* prediction exactly (the global mean for "rating", 0 for "ranking"), and
\* every other position gets the model's score for its own pair (clipped for
\* "rating", through the sigmoid for "ranking").
C11_UnknownGetsDefault ==
    call_out.op = "predict" =>
        /\ call_out.kind \in {"scalar", "array"}
        /\ Len(PredictValues) = Len(call_out.users)
        /\ \A k \in 1..Len(call_out.users) :
               IF /\ call_out.users[k] \in 0..(Len(user_consumed) - 1)
                  /\ call_out.items[k] \in 0..(Len(item_factors) - 1)
               THEN PredictValues[k] = PairScore(Model, call_out.users[k], call_out.items[k])
               ELSE PredictValues[k] = IF model_task = "rating" THEN global_mean ELSE Zero

\* A call on two positions, the first known and the second with an unknown
\* user, whose known position scores differently from the default.
C11_Witness ==
    /\ call_out.op = "predict"
    /\ call_out.users = <<0, 2>>
    /\ call_out.kind = "array"
    /\ call_out.value[1] # call_out.value[2]

\* The scores recommend_user ranks the items of a known user by.
RecosOf(mdl, user) ==
    IF mdl.kind = "ALS" THEN AlsRecos(mdl, user)
    ELSE IF mdl.kind = "SVD" THEN SvdRecos(mdl, user)
    ELSE DeepFmRecos(mdl, user)

\* The ids a sequence of consumed items holds.
ConsumedSet(mdl, user) ==
    {At(mdl.user_consumed, user)[k] : k \in 1..Len(At(mdl.user_consumed, user))}

\* value is the first n entries of a descending sort, by score, of the items
\* of user outside consumed(user): pairs of an item and its score, no
\* consumed item, no item twice, scores descending, and no item left out that
\* scores above a returned one.
IsTopUnconsumed(mdl, user, value, n) ==
    LET recos == RecosOf(mdl, user)
        chosen == {value[k][1] : k \in 1..Len(value)}
    IN  /\ Len(value) = n
        /\ Cardinality(chosen) = n
        /\ chosen \cap ConsumedSet(mdl, user) = {}
        /\ \A k \in 1..Len(value) :
               /\ value[k][1] \in 0..(Len(recos) - 1)
               /\ value[k][2] = At(recos, value[k][1])
        /\ \A k \in 1..(Len(value) - 1) : ~RLt(value[k][2], value[k + 1][2])
        /\ \A k \in 1..Len(value) : \A o \in 0..(Len(recos) - 1) :
               (o \notin chosen /\ o \notin ConsumedSet(mdl, user))
                   => ~RLt(value[k][2], At(recos, o))

\* C12: for every user id of the vocabulary and every n_rec >= 1 with
\* n_rec + |consumed(user)| <= n_items, recommend_user of ALS and of SVD
\* returns a list of n_rec (item, score) pairs with no consumed item, in
\* descending score order, equal up to ties to the first n_rec entries of a
\* full descending sort of the non-consumed items.
C12_TopOfFullSort ==
    (/\ call_out.op = "recommend_user"
     /\ model_kind \in {"ALS", "SVD"}
     /\ call_out.users[1] \in 0..(Len(user_consumed) - 1)
     /\ call_out.n_rec >= 1
     /\ call_out.n_rec + Len(At(user_consumed, call_out.users[1])) <= Len(item_factors))
        => /\ call_out.kind = "list"
           /\ IsTopUnconsumed(Model, call_out.users[1], call_out.value, call_out.n_rec)

\* C13: recommend_user called with a user id outside the vocabulary returns
\* an empty list of recommendations and does not raise (ALS, SVD, DeepFM).
C13_UnknownUserGetsEmptyList ==
    (/\ call_out.op = "recommend_user"
     /\ call_out.users[1] \notin 0..(Len(user_consumed) - 1))
        => call_out.kind = "list" /\ call_out.value = <<>>

\* C20: for a known user and any n_rec >= 1, recommend_user (ALS, SVD,
\* DeepFM) returns exactly min(n_rec, n_items - |consumed(user)|) pairs and
\* does not raise, also when n_rec + |consumed(user)| exceeds n_items.
C20_RecommendCount ==
    (/\ call_out.op = "recommend_user"
     /\ call_out.users[1] \in 0..(Len(user_consumed) - 1)
     /\ call_out.n_rec >= 1)
        => LET left == NItems(Model) - Cardinality(ConsumedSet(Model, call_out.users[1]))
           IN  /\ call_out.kind = "list"
               /\ Len(call_out.value) = IF call_out.n_rec < left THEN call_out.n_rec ELSE left

====
